---- MODULE Spec2Model ----
(***************************************************************************)
(* Model of the Fast-Image-Deduplicator pipeline: the catalog store        *)
(* (sqlite_db.py), the pipeline driver (fast_dif_new.py) and the stage     *)
(* dispatcher (dif.py).                                                    *)
(***************************************************************************)
EXTENDS Integers, Sequences, FiniteSets, TLC

VARIABLES
    fs,             \* the file system: [nA, nB, bad] (an input)
    cfg,            \* the configuration: [has_dir_b, compute_hash, fl_parallel, fl_batch,
                    \*   sl_parallel, sl_batch, batch_args, use_ram_cache]
    roots,          \* <<config.root_dir_a, config.root_dir_b>> (in memory)
    hash_table,     \* the hash table: [seq, rows], rows: key -> [hash, count]
    dif_error_table, \* the keys of the rows of dif_error_table
    ram_cache,      \* the RAM cache: block key -> BatchCache
    block_progress_dict, \* block key -> (key_a -> done)
    directory,      \* the directory table: key -> row
    dif_table,      \* the dif table: key -> row
    state,          \* config.state, the progress enum (in memory)
    cache_index,    \* config.second_loop.cache_index (in memory)
    run,            \* GracefulWorker.run of the driver
    pc,             \* the driver's position
    disk,           \* what the last commit persisted
    cmd_queue,      \* the command queue (driver -> workers)
    result_queue,   \* the result queue (workers -> driver)
    handles,        \* the number of spawned workers that have not exited
    counters,       \* [enq, deq, exit]: _enqueue_counter, _dequeue_counter, exit_counter
    hist,           \* history: what was handed out and what happened (no code reads it)
    ix              \* the directory walk of __recursive_index (idle while the pipeline runs)

vars == <<fs, cfg, roots, hash_table, dif_error_table, ram_cache, block_progress_dict,
          directory, dif_table, state, cache_index, run, pc, disk,
          cmd_queue, result_queue, handles, counters, hist, ix>>

----------------------------------------------------------------------------
(* Bounds of the model *)

MaxFiles == 3        \* files in both roots together (pipeline)
MaxBad == 1          \* unreadable files among them
MaxBlock == 2        \* second-loop batch_size (block side)
MaxBatch == 2        \* first-loop batch_size
NumWorkers == 2      \* cpu_proc

(* Program constants *)

UNPROCESSED == -1
PROCESSING == -2
ERROR == 0
OK == 1
PairUnset == -1
PairError == 0
PairOk == 1
FirstKey == 1        \* first value of an AUTOINCREMENT key
NullKey == 0         \* a NULL hash reference (hash keys start at FirstKey)
NoSize == -1         \* the default of px and py

Progress == <<"INIT", "INDEXED_DIRS", "FIRST_LOOP_IN_PROGRESS", "FIRST_LOOP_DONE",
              "SECOND_LOOP_POPULATING", "SECOND_LOOP_IN_PROGRESS", "SECOND_LOOP_DONE">>

Rank(p) == CHOOSE i \in 1..Len(Progress) : Progress[i] = p

----------------------------------------------------------------------------
(* Helpers over finite sets of integers and pairs *)

Min(S) == CHOOSE x \in S : \A y \in S : x <= y

LexLess(p, q) == p[1] < q[1] \/ (p[1] = q[1] /\ p[2] < q[2])

DiagLess(p, q) ==
    \/ p[2] - p[1] < q[2] - q[1]
    \/ (p[2] - p[1] = q[2] - q[1] /\ p[2] + p[1] < q[2] + q[1])

----------------------------------------------------------------------------
(* Catalog store: directory table *)

Paths(root, n) == {<<root, i>> : i \in 1..n}

NoError == "NULL"

NewRow(path, dir_b) ==
    [path |-> path, dir_b |-> dir_b, success |-> UNPROCESSED, error |-> NoError,
     px |-> NoSize, py |-> NoSize,
     hash_0 |-> NullKey, hash_90 |-> NullKey, hash_180 |-> NullKey, hash_270 |-> NullKey]

\* bulk_insert_file of n files of one root into table d: AUTOINCREMENT keys
NextKey(d) == IF DOMAIN d = {} THEN FirstKey ELSE
              (CHOOSE k \in DOMAIN d : \A j \in DOMAIN d : j <= k) + 1

BulkInsertFile(d, root, n, dir_b) ==
    LET base == NextKey(d)
    IN [k \in DOMAIN d \cup (base..(base + n - 1)) |->
          IF k \in DOMAIN d THEN d[k] ELSE NewRow(<<root, k - base + 1>>, dir_b)]

GetDirEntryCount(d, dir_b) == Cardinality({k \in DOMAIN d : d[k].dir_b = dir_b})

\* the rows of d with the given dir_b, in key order, renumbered from FirstKey + shift
KeysOf(d, dir_b) == {k \in DOMAIN d : d[k].dir_b = dir_b}
PosIn(S, k) == Cardinality({j \in S : j < k})

SwapDirBMutOneSided(d) ==
    LET bs == KeysOf(d, 1)
        akeys == KeysOf(d, 0)
        nb == Cardinality(bs)
        n == Cardinality(DOMAIN d)
        src(k) == IF k - FirstKey < nb
                  THEN CHOOSE j \in bs : PosIn(bs, j) = k - FirstKey
                  ELSE CHOOSE j \in akeys : PosIn(akeys, j) = k - FirstKey - nb
    IN [k \in FirstKey..(FirstKey + n - 1) |-> [d[src(k)] EXCEPT !.dir_b = 0]]

SwapDirB(d) ==
    LET bs == KeysOf(d, 1)
        akeys == KeysOf(d, 0)
        nb == Cardinality(bs)
        n == Cardinality(DOMAIN d)
        src(k) == IF k - FirstKey < nb
                  THEN CHOOSE j \in bs : PosIn(bs, j) = k - FirstKey
                  ELSE CHOOSE j \in akeys : PosIn(akeys, j) = k - FirstKey - nb
    IN [k \in FirstKey..(FirstKey + n - 1) |->
          [d[src(k)] EXCEPT !.dir_b = IF k - FirstKey < nb THEN 0 ELSE 1]]

SetKeysZeroIndexMutNoShift(d) == d

SetKeysZeroIndex(d) ==
    IF DOMAIN d = {} THEN d
    ELSE LET m == Min(DOMAIN d)
         IN [k \in {j - m : j \in DOMAIN d} |-> d[k + m]]

\* cond_switch_a_b: the table and whether the roots were exchanged
CondSwitchABMutBLarger(d, has_dir_b) ==
    IF ~has_dir_b THEN d
    ELSE IF GetDirEntryCount(d, 1) <= GetDirEntryCount(d, 0) THEN d
    ELSE SwapDirB(d)

CondSwitchABMutSwapOnTie(d, has_dir_b) ==
    IF ~has_dir_b THEN d
    ELSE IF GetDirEntryCount(d, 0) < GetDirEntryCount(d, 1) THEN d
    ELSE SwapDirB(d)

CondSwitchAB(d, has_dir_b) ==
    IF ~has_dir_b THEN d
    ELSE IF GetDirEntryCount(d, 0) <= GetDirEntryCount(d, 1) THEN d
    ELSE SwapDirB(d)

\* cond_switch_a_b: the roots of the configuration are exchanged with the labels
CondSwitchRoots(d, has_dir_b, rt) ==
    IF ~has_dir_b THEN rt
    ELSE IF GetDirEntryCount(d, 0) <= GetDirEntryCount(d, 1) THEN rt
    ELSE <<rt[2], rt[1]>>

----------------------------------------------------------------------------
(* Catalog store: dif table, prepopulate_diff_table *)

\* INSERT INTO dif_table (key_a, key_b) SELECT ... (the candidate pairs)
CandidatePairs(d, has_dir_b) ==
    IF has_dir_b
    THEN {p \in (DOMAIN d) \X (DOMAIN d) : d[p[1]].dir_b = 0 /\ d[p[2]].dir_b = 1}
    ELSE {p \in (DOMAIN d) \X (DOMAIN d) : p[1] < p[2]}

\* SELECT MIN(key) FROM directory WHERE dir_b = 1
GetBOffset(d) == Min(KeysOf(d, 1))

BlockA(key_a, bsize) == key_a \div bsize

BlockBMutNoOffset(d, key_b, bsize, has_dir_b) == key_b \div bsize

BlockB(d, key_b, bsize, has_dir_b) ==
    IF has_dir_b THEN (key_b - GetBOffset(d)) \div bsize ELSE key_b \div bsize

\* the ORDER BY of the INSERT INTO block_key_temp
BlockBeforeMutRowMajor(p, q, has_dir_b) == LexLess(p, q)

BlockBefore(p, q, has_dir_b) ==
    IF has_dir_b THEN LexLess(p, q) ELSE DiagLess(p, q)

\* block_key_temp: AUTOINCREMENT key of a distinct (block_a, block_b) among blocks
BlockKeyTemp(blocks, b, has_dir_b) ==
    FirstKey + Cardinality({q \in blocks : BlockBefore(q, b, has_dir_b)})

PrepopulateDiffTable(d, bsize, has_dir_b) ==
    LET pairs == CandidatePairs(d, has_dir_b)
        blk(p) == <<BlockA(p[1], bsize), BlockB(d, p[2], bsize, has_dir_b)>>
        blocks == {blk(p) : p \in pairs}
        row(k) == LET p == CHOOSE p \in pairs :
                             Cardinality({q \in pairs : LexLess(q, p)}) = k - FirstKey
                  IN [key_a |-> p[1], key_b |-> p[2], dif |-> -1, success |-> PairUnset,
                      block_a |-> blk(p)[1], block_b |-> blk(p)[2],
                      block_key |-> BlockKeyTemp(blocks, blk(p), has_dir_b)]
    IN [k \in FirstKey..(FirstKey + Cardinality(pairs) - 1) |-> row(k)]

----------------------------------------------------------------------------
(* Catalog store: first loop *)

EmptyTable == [k \in {} |-> 0]

NoBatch == 0         \* encodes batch_size = None ("no batching")

\* the first n elements of S in key order (SQLite scans the success index in rowid order)
FirstN(S, n) == {k \in S : PosIn(S, k) < n}

Unprocessed(d) == {k \in DOMAIN d : d[k].success = UNPROCESSED}

\* SELECT key, path FROM directory WHERE success = -1 LIMIT n
SelectBatchMutNoLimit(d, n) == Unprocessed(d)

SelectBatch(d, n) == FirstN(Unprocessed(d), n)

\* UPDATE directory SET success = -2 WHERE key IN (SELECT key ... WHERE success = -1 LIMIT n)
UpdateBatchMutShort(d, n) ==
    [k \in DOMAIN d |-> IF k \in FirstN(Unprocessed(d), n - 1)
                        THEN [d[k] EXCEPT !.success = PROCESSING] ELSE d[k]]

UpdateBatch(d, n) ==
    [k \in DOMAIN d |-> IF k \in FirstN(Unprocessed(d), n)
                        THEN [d[k] EXCEPT !.success = PROCESSING] ELSE d[k]]

\* UPDATE directory SET success = -1 WHERE success = -2
ResetPreprocessingMutAll(d) ==
    [k \in DOMAIN d |-> [d[k] EXCEPT !.success = UNPROCESSED]]

ResetPreprocessing(d) ==
    [k \in DOMAIN d |-> IF d[k].success = PROCESSING
                        THEN [d[k] EXCEPT !.success = UNPROCESSED] ELSE d[k]]

\* a preprocessing result carries an error iff the file cannot be decoded
PreprocessFails(d, k) == d[k].path \in fs.bad

\* the hash of a file under a rotation: a string, None for a result that carries an error;
\* files with the same name in both roots are copies, the first file of a root is
\* symmetric under a rotation by 180 degrees
NoneHash == <<0, 0>>

HashOf(path, rot) == <<path[2], IF path[2] = 1 THEN rot % 2 ELSE rot>>

\* the PreprocessResult a worker returns for row k
PreprocessResult(d, k, do_hash) ==
    IF PreprocessFails(d, k)
    THEN [key |-> k, error |-> "cannot decode", org_x |-> NoSize, org_y |-> NoSize,
          hashes |-> <<NoneHash, NoneHash, NoneHash, NoneHash>>]
    ELSE [key |-> k, error |-> NoError, org_x |-> d[k].path[2], org_y |-> 1,
          hashes |-> IF do_hash
                     THEN <<HashOf(d[k].path, 0), HashOf(d[k].path, 1),
                            HashOf(d[k].path, 2), HashOf(d[k].path, 3)>>
                     ELSE <<NoneHash, NoneHash, NoneHash, NoneHash>>]

\* the results of the rows keys, in key order
RECURSIVE ResultsOf(_, _, _)
ResultsOf(d, keys, do_hash) ==
    IF keys = {} THEN <<>>
    ELSE <<PreprocessResult(d, Min(keys), do_hash)>> \o ResultsOf(d, keys \ {Min(keys)}, do_hash)

EmptyHashTable == [seq |-> FirstKey - 1, rows |-> EmptyTable]

\* INSERT INTO hash_table (hash, count) VALUES (?, 1) ON CONFLICT(hash) DO UPDATE SET
\* count = count + 1: a NULL hash never conflicts, every attempt takes a sequence number
InsertHash(ht, h) ==
    LET hit == {k \in DOMAIN ht.rows : ht.rows[k].hash = h /\ h # NoneHash}
        key == ht.seq + 1
    IN IF hit # {}
       THEN [seq |-> key,
             rows |-> [k \in DOMAIN ht.rows |->
                         IF k \in hit THEN [ht.rows[k] EXCEPT !.count = @ + 1] ELSE ht.rows[k]]]
       ELSE [seq |-> key,
             rows |-> [k \in DOMAIN ht.rows \cup {key} |->
                         IF k = key THEN [hash |-> h, count |-> 1] ELSE ht.rows[k]]]

RECURSIVE BulkInsertHashes(_, _)
BulkInsertHashes(ht, hashes) ==
    IF Len(hashes) = 0 THEN ht
    ELSE BulkInsertHashes(InsertHash(ht, Head(hashes)), Tail(hashes))

\* the hashes of the results, four per result, in the order of the results
RECURSIVE HashesOf(_)
HashesOf(results) ==
    IF Len(results) = 0 THEN <<>> ELSE Head(results).hashes \o HashesOf(Tail(results))

\* get_bulk_hash_lookup: SELECT key FROM hash_table WHERE hash = ? finds no row for NULL
HashFound(ht, h) == h # NoneHash /\ \E k \in DOMAIN ht.rows : ht.rows[k].hash = h

HashLookup(ht, h) == CHOOSE k \in DOMAIN ht.rows : ht.rows[k].hash = h

\* batch_of_first_loop_results: the error rows, then the success rows
BatchOfFirstLoopResultsMutNoSize(d, ht, results, has_hash) ==
    LET res(k) == results[CHOOSE i \in 1..Len(results) : results[i].key = k]
        keys == {results[i].key : i \in 1..Len(results)}
    IN [k \in DOMAIN d |->
          IF k \notin keys THEN d[k]
          ELSE IF res(k).error # NoError
          THEN [d[k] EXCEPT !.error = res(k).error, !.success = ERROR]
          ELSE [d[k] EXCEPT !.success = OK]]

BatchOfFirstLoopResults(d, ht, results, has_hash) ==
    LET res(k) == results[CHOOSE i \in 1..Len(results) : results[i].key = k]
        keys == {results[i].key : i \in 1..Len(results)}
    IN [k \in DOMAIN d |->
          IF k \notin keys THEN d[k]
          ELSE IF res(k).error # NoError
          THEN [d[k] EXCEPT !.error = res(k).error, !.success = ERROR]
          ELSE IF has_hash
          THEN [d[k] EXCEPT !.px = res(k).org_x, !.py = res(k).org_y,
                            !.hash_0 = HashLookup(ht, res(k).hashes[1]),
                            !.hash_90 = HashLookup(ht, res(k).hashes[2]),
                            !.hash_180 = HashLookup(ht, res(k).hashes[3]),
                            !.hash_270 = HashLookup(ht, res(k).hashes[4]),
                            !.success = OK]
          ELSE [d[k] EXCEPT !.px = res(k).org_x, !.py = res(k).org_y, !.success = OK]]

\* store_batch_first_loop: [ok, directory, hash_table]; without ok the lookup of a hash
\* raised after the hashes were inserted
StoreBatchFirstLoopMutHashesLast(d, ht, results, do_hash) ==
    IF ~do_hash
    THEN [ok |-> TRUE, directory |-> BatchOfFirstLoopResults(d, ht, results, FALSE),
          hash_table |-> ht]
    ELSE LET hashes == HashesOf(results)
             filled == BulkInsertHashes(ht, hashes)
         IN IF \E i \in 1..Len(hashes) : ~HashFound(filled, hashes[i])
            THEN [ok |-> FALSE, directory |-> d, hash_table |-> filled]
            ELSE [ok |-> TRUE, directory |-> BatchOfFirstLoopResults(d, filled, results, TRUE),
                  hash_table |-> ht]

StoreBatchFirstLoop(d, ht, results, do_hash) ==
    IF ~do_hash
    THEN [ok |-> TRUE, directory |-> BatchOfFirstLoopResults(d, ht, results, FALSE),
          hash_table |-> ht]
    ELSE LET hashes == HashesOf(results)
             filled == BulkInsertHashes(ht, hashes)
         IN IF \E i \in 1..Len(hashes) : ~HashFound(filled, hashes[i])
            THEN [ok |-> FALSE, directory |-> d, hash_table |-> filled]
            ELSE [ok |-> TRUE, directory |-> BatchOfFirstLoopResults(d, filled, results, TRUE),
                  hash_table |-> filled]

----------------------------------------------------------------------------
(* Catalog store: second loop *)

BlockRows(t, bk) == {k \in DOMAIN t : t[k].block_key = bk}

\* get_cache_block_thumb: does the block exist, and its extent
BlockExists(t, bk) == BlockRows(t, bk) # {}

BlockSizeY(t, bk) == Cardinality({t[k].key_b : k \in BlockRows(t, bk)})

\* get_task_block_key: one task per key_a of the block: (key, key_a, MAX(key_b))
TaskBlockKey(t, bk) ==
    {[kind |-> "btask", keys |-> {k}, key_a |-> t[k].key_a, key_b |-> t[k].key_b,
      n |-> BlockSizeY(t, bk)] :
        k \in {j \in BlockRows(t, bk) :
                 \A i \in BlockRows(t, bk) : t[i].key_a = t[j].key_a => t[i].key_b <= t[j].key_b}}

\* get_item_block: the rows of the block that are not computed yet
ItemBlock(t, bk) == {k \in BlockRows(t, bk) : t[k].success = PairUnset}

\* a comparison fails iff one of the two files cannot be read
CompareFails(d, t, k) ==
    PreprocessFails(d, t[k].key_a) \/ PreprocessFails(d, t[k].key_b)

\* insert_batch_diff_item_result and insert_batch_diff_error for item results
StoreItemSecondLoop(d, t, keys) ==
    [k \in DOMAIN t |-> IF k \in keys
                        THEN IF CompareFails(d, t, k)
                             THEN [t[k] EXCEPT !.success = PairError]
                             ELSE [t[k] EXCEPT !.success = PairOk, !.dif = 0]
                        ELSE t[k]]

\* insert_batch_diff_block_result: UPDATE dif_table SET dif = results[i], success = 1
\* WHERE key_a = min_key_x AND key_b = max_key_y - i, for i in range(len(results))
InsertBatchDiffBlockResultMutAscending(t, min_key_x, max_key_y, results) ==
    [k \in DOMAIN t |->
        IF /\ t[k].key_a = min_key_x
           /\ \E i \in 0..(Len(results) - 1) : t[k].key_b = max_key_y - i
        THEN [t[k] EXCEPT !.dif = results[Len(results) - (max_key_y - t[k].key_b)],
                          !.success = PairOk]
        ELSE t[k]]

InsertBatchDiffBlockResultMutAnyKeyA(t, min_key_x, max_key_y, results) ==
    [k \in DOMAIN t |->
        IF \E i \in 0..(Len(results) - 1) : t[k].key_b = max_key_y - i
        THEN [t[k] EXCEPT !.dif = results[(max_key_y - t[k].key_b) + 1], !.success = PairOk]
        ELSE t[k]]

InsertBatchDiffBlockResult(t, min_key_x, max_key_y, results) ==
    [k \in DOMAIN t |->
        IF /\ t[k].key_a = min_key_x
           /\ \E i \in 0..(Len(results) - 1) : t[k].key_b = max_key_y - i
        THEN [t[k] EXCEPT !.dif = results[(max_key_y - t[k].key_b) + 1], !.success = PairOk]
        ELSE t[k]]

\* insert_batch_diff_block_result, then insert_batch_diff_error, for one batch result
\* (the vector of a worker is 0 for every pair of the task)
StoreBatchResult(d, t, res) ==
    LET written == InsertBatchDiffBlockResult(t, res.key_a, res.key_b, [i \in 1..res.n |-> 0])
    IN [k \in DOMAIN t |->
          IF /\ t[k].key_a = res.key_a /\ t[k].key_b <= res.key_b
             /\ t[k].key_b > res.key_b - res.n
             /\ CompareFails(d, t, k)
          THEN [written[k] EXCEPT !.success = PairError]
          ELSE written[k]]

RECURSIVE StoreBatchSecondLoop(_, _, _)
StoreBatchSecondLoop(d, t, results) ==
    IF Len(results) = 0 THEN t
    ELSE StoreBatchSecondLoop(d, StoreBatchResult(d, t, Head(results)), Tail(results))

\* the errors dictionary of store_item_second_loop: the keys of the failed results
ItemErrors(d, t, keys) == {k \in keys : CompareFails(d, t, k)}

\* the errors dictionary of one batch result: the pair keys that failed
BatchResultErrors(d, t, res) ==
    {k \in DOMAIN t : /\ t[k].key_a = res.key_a
                      /\ t[k].key_b <= res.key_b
                      /\ t[k].key_b > res.key_b - res.n
                      /\ CompareFails(d, t, k)}

RECURSIVE BatchErrors(_, _, _)
BatchErrors(d, t, results) ==
    IF Len(results) = 0 THEN {}
    ELSE BatchResultErrors(d, t, Head(results)) \cup BatchErrors(d, t, Tail(results))

\* insert_batch_diff_error: INSERT INTO dif_error_table; key is the primary key
InsertErrorOk(et, errors) == et \cap errors = {}

InsertBatchDiffError(et, errors) == et \cup errors

\* get_duplicate_pairs: WHERE dif < delta AND success = 1
GetDuplicatePairsMutAnySuccess(t, delta) ==
    {k \in DOMAIN t : t[k].dif < delta}

GetDuplicatePairs(t, delta) ==
    {k \in DOMAIN t : t[k].dif < delta /\ t[k].success = PairOk}

\* get_cluster: the pairs of the clusters, WHERE dif < delta AND d.success = 1
GetCluster(t, delta) ==
    {<<t[k].key_a, t[k].key_b>> : k \in {j \in DOMAIN t : t[j].dif < delta /\ t[j].success = PairOk}}

----------------------------------------------------------------------------
(* RAM cache of the second loop *)

\* get_cache_block_thumb: lower keys and sizes of an existing block
GetCacheBlockThumb(t, bk) ==
    LET rows == BlockRows(t, bk)
    IN [l_x |-> Min({t[k].key_a : k \in rows}), l_y |-> Min({t[k].key_b : k \in rows}),
        s_x |-> Cardinality({t[k].key_a : k \in rows}),
        s_y |-> Cardinality({t[k].key_b : k \in rows})]

ImageCache(offset, size) == [offset |-> offset, size |-> size]

\* __build_thumb_cache: the test for the diagonal and the test for a square block
OnDiagonal(b) == b.l_x + 1 = b.l_y

NotSquare(b) == OnDiagonal(b) /\ b.s_x # b.s_y

\* __build_thumb_cache: the BatchCache; shared says that x and y are one ImageCache
BuildThumbCacheMutNoExtra(b) ==
    IF OnDiagonal(b)
    THEN [x |-> ImageCache(b.l_x, b.s_x), y |-> ImageCache(b.l_x, b.s_x), shared |-> TRUE]
    ELSE [x |-> ImageCache(b.l_x, b.s_x), y |-> ImageCache(b.l_y, b.s_y), shared |-> FALSE]

BuildThumbCache(b) ==
    IF OnDiagonal(b)
    THEN [x |-> ImageCache(b.l_x, b.s_x + 1), y |-> ImageCache(b.l_x, b.s_x + 1),
          shared |-> TRUE]
    ELSE [x |-> ImageCache(b.l_x, b.s_x), y |-> ImageCache(b.l_y, b.s_y), shared |-> FALSE]

\* __build_thumb_cache: bp = {i + l_x: False for i in range(s_x)}
BlockProgress(b) == [ka \in b.l_x..(b.l_x + b.s_x - 1) |-> FALSE]

\* dict[k] = v and dict.pop(k)
Put(f, k, v) == [j \in DOMAIN f \cup {k} |-> IF j = k THEN v ELSE f[j]]

Pop(f, k) == [j \in DOMAIN f \ {k} |-> f[j]]

\* the block a task was taken from: its cache_key
CacheKeyOf(t, res) == t[CHOOSE k \in res.keys : TRUE].block_key

\* store_batch_second_loop: block_progress_dict[res.cache_key][res.key_a] = True
RECURSIVE UpdateProgress(_, _, _)
UpdateProgress(bpd, t, results) ==
    IF Len(results) = 0 THEN bpd
    ELSE LET res == Head(results)
             ck == CacheKeyOf(t, res)
         IN UpdateProgress([bpd EXCEPT ![ck] = Put(@, res.key_a, TRUE)], t, Tail(results))

\* the results whose cache_key has no entry in block_progress_dict raise KeyError
ProgressOk(bpd, t, results) ==
    \A i \in 1..Len(results) : CacheKeyOf(t, results[i]) \in DOMAIN bpd

\* verify_item_block
VerifyItemBlock(t, bk) == \A k \in BlockRows(t, bk) : t[k].success # PairUnset

\* prune_cache_item: the lowest key leaves the cache if its block is verified
PruneCacheItemMutAlways(rc, t) ==
    IF DOMAIN rc = {} THEN rc
    ELSE Pop(rc, Min(DOMAIN rc))

PruneCacheItem(rc, t) ==
    IF DOMAIN rc = {} THEN rc
    ELSE IF VerifyItemBlock(t, Min(DOMAIN rc)) THEN Pop(rc, Min(DOMAIN rc))
    ELSE rc

\* prune_cache_batch: the lowest key leaves both dictionaries if all its progress is True
PruneBatchHit(rc, bpd) ==
    /\ DOMAIN rc # {}
    /\ \A ka \in DOMAIN bpd[Min(DOMAIN rc)] : bpd[Min(DOMAIN rc)][ka]

PruneCacheBatch(rc, bpd) == IF PruneBatchHit(rc, bpd) THEN Pop(rc, Min(DOMAIN rc)) ELSE rc

PruneProgressBatch(rc, bpd) == IF PruneBatchHit(rc, bpd) THEN Pop(bpd, Min(DOMAIN rc)) ELSE bpd

----------------------------------------------------------------------------
(* Pipeline driver: state, commit, queues *)

\* the cursor of a fresh configuration: the first block key
InitialCacheIndex == FirstKey

Terminal == {"done", "stopped", "crashed", "killed"}

Snapshot(d, t, ht, et, st, ci, rt) ==
    [directory |-> d, dif_table |-> t, hash_table |-> ht, dif_error_table |-> et,
     state |-> st, cache_index |-> ci, roots |-> rt]

Stop == [kind |-> "stop", keys |-> {}, key_a |-> 0, key_b |-> 0, n |-> 0]
None == [kind |-> "none", keys |-> {}, key_a |-> 0, key_b |-> 0, n |-> 0]
Task(keys) == [kind |-> "task", keys |-> keys, key_a |-> 0, key_b |-> 0, n |-> 0]

\* a set of keys as a sequence in key order
RECURSIVE SeqOf(_)
SeqOf(S) == IF S = {} THEN <<>> ELSE <<Min(S)>> \o SeqOf(S \ {Min(S)})

RECURSIVE Singles(_)
Singles(S) == IF S = {} THEN <<>> ELSE <<Task({Min(S)})>> \o Singles(S \ {Min(S)})

RECURSIVE RepeatMutOneLess(_, _)
RepeatMutOneLess(x, n) == IF n <= 1 THEN <<>> ELSE <<x>> \o RepeatMutOneLess(x, n - 1)

RECURSIVE Repeat(_, _)
Repeat(x, n) == IF n = 0 THEN <<>> ELSE <<x>> \o Repeat(x, n - 1)

\* the batch tasks of a block, in key_a order
RECURSIVE BatchTasks(_)
BatchTasks(S) ==
    IF S = {} THEN <<>>
    ELSE LET x == CHOOSE x \in S : \A y \in S : x.key_a <= y.key_a
         IN <<x>> \o BatchTasks(S \ {x})

\* submit_batch_first_loop: what is put on the command queue for the selected keys
FirstLoopPuts(keys, bs) ==
    IF Cardinality(keys) = bs THEN <<Task(keys)>> ELSE Singles(keys)

\* the loader selected by set_load_batch: what is put on the command queue for block bk
SecondLoopPuts(t, bk, batch_args) ==
    IF batch_args THEN BatchTasks(TaskBlockKey(t, bk)) ELSE Singles(ItemBlock(t, bk))

\* the loader's stopping criterion
NoMoreBlocks(t, bk, batch_args) ==
    IF batch_args THEN ~BlockExists(t, bk) ELSE ItemBlock(t, bk) = {}

\* the dequeue threshold of the stage
ThresholdMutSwapped(first) ==
    IF first THEN cfg.fl_batch * 2
    ELSE IF cfg.batch_args THEN (cfg.sl_batch * cfg.sl_batch) * 2
    ELSE cfg.sl_batch * NumWorkers

Threshold(first) ==
    IF first THEN cfg.fl_batch * 2
    ELSE IF cfg.batch_args THEN cfg.sl_batch * NumWorkers
    ELSE (cfg.sl_batch * cfg.sl_batch) * 2

\* whether the dequeue function counts a result at once (item mode counts after its loop)
CountsInLoop(first) == first \/ cfg.batch_args

\* the dequeue loop of a stage: the results taken, what stays queued, the counters
RECURSIVE Dequeue(_, _, _, _, _, _)
Dequeue(q, deq, enq, thr, drain, live) ==
    IF Len(q) = 0 \/ ~(deq + thr < enq \/ drain)
    THEN [rest |-> q, items |-> <<>>, count |-> 0, exits |-> 0]
    ELSE LET h == Head(q)
             c == IF h.kind = "none" THEN 0
                  ELSE IF h.kind = "bres" THEN 1 ELSE Cardinality(h.keys)
             r == Dequeue(Tail(q), IF live THEN deq + c ELSE deq, enq, thr, drain, live)
         IN [rest |-> r.rest,
             items |-> IF h.kind = "none" THEN r.items ELSE <<h>> \o r.items,
             count |-> r.count + c,
             exits |-> r.exits + (IF h.kind = "none" THEN 1 ELSE 0)]

RECURSIVE KeysIn(_)
KeysIn(items) == IF Len(items) = 0 THEN {} ELSE Head(items).keys \cup KeysIn(Tail(items))

----------------------------------------------------------------------------
(* Initial states *)

FileSystems ==
    {f \in [nA : 0..MaxFiles, nB : 0..MaxFiles,
            bad : SUBSET (Paths("a", MaxFiles) \cup Paths("b", MaxFiles))] :
        /\ f.nA + f.nB <= MaxFiles
        /\ f.bad \subseteq Paths("a", f.nA) \cup Paths("b", f.nB)
        /\ Cardinality(f.bad) <= MaxBad}

Configs ==
    {c \in [has_dir_b : BOOLEAN, compute_hash : BOOLEAN, fl_parallel : BOOLEAN,
            fl_batch : {NoBatch} \cup (1..MaxBatch),
            sl_parallel : BOOLEAN, sl_batch : 1..MaxBlock, batch_args : BOOLEAN,
            use_ram_cache : BOOLEAN] :
        \* second_loop_arg: batched processing and no RAM cache need parallel processing
        ~c.sl_parallel => (~c.batch_args /\ c.use_ram_cache)}

FreshHist == [given |-> {}, twice |-> FALSE, loaded |-> {}, reloaded |-> FALSE,
              killed |-> "no", relaunched |-> FALSE, observed |-> "no", interrupted |-> "no"]

Init ==
    /\ fs \in FileSystems
    /\ cfg \in Configs
    /\ fs.nB > 0 => cfg.has_dir_b
    /\ directory = EmptyTable
    /\ dif_table = EmptyTable
    /\ state = "INIT"
    /\ cache_index = InitialCacheIndex
    /\ run = TRUE
    /\ pc = "launch"
    /\ roots = <<"a", IF cfg.has_dir_b THEN "b" ELSE "none">>
    /\ hash_table = EmptyHashTable
    /\ dif_error_table = {}
    /\ ram_cache = EmptyTable
    /\ block_progress_dict = EmptyTable
    /\ disk = Snapshot(EmptyTable, EmptyTable, EmptyHashTable, {}, "INIT", InitialCacheIndex,
                       roots)
    /\ cmd_queue = <<>>
    /\ result_queue = <<>>
    /\ handles = 0
    /\ counters = [enq |-> 0, deq |-> 0, exit |-> 0]
    /\ hist = FreshHist
    /\ ix = [status |-> "idle"]

----------------------------------------------------------------------------
(* Pipeline driver: indexing and the stage dispatcher *)

Commit == disk' = Snapshot(directory', dif_table', hash_table', dif_error_table', state',
                           cache_index', roots')

\* full_index, first half: perform_index walks both roots, sets INDEXED_DIRS, commits
PerformIndex ==
    /\ pc = "launch"
    /\ directory' = BulkInsertFile(BulkInsertFile(EmptyTable, "a", fs.nA, 0),
                                   "b", IF cfg.has_dir_b THEN fs.nB ELSE 0, 1)
    /\ state' = "INDEXED_DIRS"
    /\ pc' = "sizing"
    /\ UNCHANGED <<roots, hash_table, dif_error_table, ram_cache, block_progress_dict>>
    /\ UNCHANGED <<ix, fs, cfg, dif_table, cache_index, run, cmd_queue, result_queue,
                   handles, counters, hist>>
    /\ Commit

\* full_index, second half: cond_switch_a_b, set_keys_zero_index, commit
Sizing ==
    /\ pc = "sizing"
    /\ directory' = SetKeysZeroIndex(CondSwitchAB(directory, cfg.has_dir_b))
    /\ roots' = CondSwitchRoots(directory, cfg.has_dir_b, roots)
    /\ pc' = "after_index"
    /\ UNCHANGED <<hash_table, dif_error_table, ram_cache, block_progress_dict>>
    /\ UNCHANGED <<ix, fs, cfg, dif_table, state, cache_index, run, cmd_queue, result_queue,
                   handles, counters, hist>>
    /\ Commit

\* compute: the checks between the stages
ComputeAfterIndex ==
    /\ pc = "after_index"
    /\ pc' = IF ~run THEN "stopped"
             ELSE IF state \in {"INDEXED_DIRS", "FIRST_LOOP_IN_PROGRESS"} THEN "fl_start"
             ELSE "after_fl"
    /\ UNCHANGED <<roots, hash_table, dif_error_table, ram_cache, block_progress_dict>>
    /\ UNCHANGED <<ix, fs, cfg, directory, dif_table, state, cache_index, run, cmd_queue,
                   result_queue, handles, counters, hist>>
    /\ IF ~run THEN Commit ELSE UNCHANGED disk

ComputeAfterFirstLoop ==
    /\ pc = "after_fl"
    /\ pc' = IF ~run THEN "stopped"
             ELSE IF state \in {"SECOND_LOOP_IN_PROGRESS", "FIRST_LOOP_DONE"} THEN "sl_start"
             ELSE "after_sl"
    /\ UNCHANGED <<roots, hash_table, dif_error_table, ram_cache, block_progress_dict>>
    /\ UNCHANGED <<ix, fs, cfg, directory, dif_table, state, cache_index, run, cmd_queue,
                   result_queue, handles, counters, hist>>
    /\ IF ~run THEN Commit ELSE UNCHANGED disk

ComputeAfterSecondLoop ==
    /\ pc = "after_sl"
    /\ pc' = IF ~run THEN "stopped" ELSE "done"
    /\ UNCHANGED <<roots, hash_table, dif_error_table, ram_cache, block_progress_dict>>
    /\ UNCHANGED <<ix, fs, cfg, directory, dif_table, state, cache_index, run, cmd_queue,
                   result_queue, handles, counters, hist>>
    /\ IF ~run THEN Commit ELSE UNCHANGED disk

----------------------------------------------------------------------------
(* Pipeline driver: first loop *)

Given(keys) == [hist EXCEPT !.given = @ \cup keys,
                            !.twice = @ \/ (keys \cap hist.given # {})]

\* first_loop: the state update before either variant of the loop
FirstLoopStart ==
    /\ pc = "fl_start"
    /\ state' = "FIRST_LOOP_IN_PROGRESS"
    /\ pc' = IF cfg.fl_parallel THEN "fl_prefill" ELSE "fl_seq"
    /\ UNCHANGED <<roots, hash_table, dif_error_table, ram_cache, block_progress_dict>>
    /\ UNCHANGED <<ix, fs, cfg, directory, dif_table, cache_index, run, disk, cmd_queue,
                   result_queue, handles, counters, hist>>

\* sequential_first_loop: one iteration of while self.run
FirstLoopSeqStep ==
    /\ pc = "fl_seq"
    /\ IF ~run
       THEN pc' = "fl_seq_end" /\ UNCHANGED <<directory, hash_table, hist>>
       ELSE IF cfg.fl_batch = NoBatch
       THEN pc' = "crashed" /\ UNCHANGED <<directory, hash_table, hist>>
       ELSE LET args == SelectBatch(directory, cfg.fl_batch)
                taken == UpdateBatch(directory, cfg.fl_batch)
                st == StoreBatchFirstLoop(taken, hash_table,
                                          ResultsOf(taken, args, cfg.compute_hash),
                                          cfg.compute_hash)
            IN /\ directory' = st.directory
               /\ hash_table' = st.hash_table
               /\ hist' = Given(args)
               /\ pc' = IF ~st.ok THEN "crashed"
                        ELSE IF args = {} THEN "fl_seq_end" ELSE "fl_seq"
    /\ UNCHANGED <<roots, dif_error_table, ram_cache, block_progress_dict>>
    /\ UNCHANGED <<ix, fs, cfg, dif_table, state, cache_index, run, disk, cmd_queue,
                   result_queue, handles, counters>>

FirstLoopSeqEnd ==
    /\ pc = "fl_seq_end"
    /\ state' = IF run THEN "FIRST_LOOP_DONE" ELSE state
    /\ pc' = "after_fl"
    /\ UNCHANGED <<roots, hash_table, dif_error_table, ram_cache, block_progress_dict>>
    /\ UNCHANGED <<ix, fs, cfg, directory, dif_table, cache_index, run, disk, cmd_queue,
                   result_queue, handles, counters, hist>>

----------------------------------------------------------------------------
(* Pipeline driver: generic_mp_loop, for the first loop (first) or the second *)

At(first, a, b) == IF first THEN a ELSE b

\* submit_fn: submit_batch_first_loop or the block loader; c0 are the counters before
SubmitFn(first, c0, pcMore, pcDone) ==
    IF first
    THEN IF cfg.fl_batch = NoBatch
         THEN /\ pc' = "crashed"
              /\ counters' = c0
              /\ UNCHANGED <<directory, cmd_queue, cache_index, hist, ram_cache,
                             block_progress_dict>>
         ELSE LET args == SelectBatch(directory, cfg.fl_batch)
              IN /\ directory' = UpdateBatch(directory, cfg.fl_batch)
                 /\ cmd_queue' = cmd_queue \o FirstLoopPuts(args, cfg.fl_batch)
                 /\ counters' = [c0 EXCEPT !.enq = @ + Cardinality(args)]
                 /\ hist' = Given(args)
                 /\ pc' = IF args # {} THEN pcMore ELSE pcDone
                 /\ UNCHANGED <<cache_index, ram_cache, block_progress_dict>>
    ELSE LET builds == cfg.use_ram_cache /\ BlockExists(dif_table, cache_index)
             b == GetCacheBlockThumb(dif_table, cache_index)
         IN IF builds /\ NotSquare(b)
            THEN /\ pc' = "crashed"
                 /\ counters' = c0
                 /\ UNCHANGED <<directory, cmd_queue, cache_index, hist, ram_cache,
                                block_progress_dict>>
            ELSE /\ ram_cache' = IF builds THEN Put(ram_cache, cache_index, BuildThumbCache(b))
                                 ELSE ram_cache
                 /\ block_progress_dict' =
                        IF builds /\ cfg.batch_args
                        THEN Put(block_progress_dict, cache_index, BlockProgress(b))
                        ELSE block_progress_dict
                 /\ IF NoMoreBlocks(dif_table, cache_index, cfg.batch_args)
                    THEN /\ pc' = pcDone
                         /\ counters' = c0
                         /\ UNCHANGED <<directory, cmd_queue, cache_index, hist>>
                    ELSE LET puts == SecondLoopPuts(dif_table, cache_index, cfg.batch_args)
                         IN /\ cmd_queue' = cmd_queue \o puts
                            /\ counters' = [c0 EXCEPT !.enq = @ + Len(puts)]
                            /\ cache_index' = cache_index + 1
                            /\ hist' = [hist EXCEPT !.loaded = @ \cup {cache_index},
                                                    !.reloaded = @ \/ cache_index \in hist.loaded]
                            /\ pc' = pcMore
                            /\ UNCHANGED directory

\* multiprocessing_preamble: reset, prefill once, start the workers
Preamble(first) ==
    /\ pc = At(first, "fl_prefill", "sl_prefill")
    /\ SubmitFn(first, [enq |-> 0, deq |-> 0, exit |-> 0],
                At(first, "fl_loop", "sl_loop"), At(first, "fl_loop", "sl_loop"))
    /\ handles' = IF pc' = "crashed" THEN handles ELSE NumWorkers
    /\ UNCHANGED <<roots, hash_table, dif_error_table>>
    /\ UNCHANGED <<ix, fs, cfg, dif_table, state, run, disk, result_queue>>

\* while self.run: if not submit_fn(): break
LoopSubmit(first) ==
    /\ pc = At(first, "fl_loop", "sl_loop")
    /\ IF ~run
       THEN /\ pc' = At(first, "fl_stop", "sl_stop")
            /\ UNCHANGED <<directory, cmd_queue, cache_index, hist, counters, ram_cache,
                           block_progress_dict>>
       ELSE SubmitFn(first, counters, At(first, "fl_deq", "sl_deq"),
                     At(first, "fl_stop", "sl_stop"))
    /\ UNCHANGED <<roots, hash_table, dif_error_table>>
    /\ UNCHANGED <<ix, fs, cfg, dif_table, state, run, disk, result_queue, handles>>

\* dequeue_fn and the store function it ends with; a store function that raises ends
\* the process
DequeueFn(first, drain, pcNext) ==
    LET r == Dequeue(result_queue, counters.deq, counters.enq, Threshold(first), drain,
                     CountsInLoop(first))
    IN /\ result_queue' = r.rest
       /\ counters' = [counters EXCEPT !.deq = @ + r.count, !.exit = @ + r.exits]
       /\ IF first
          THEN LET st == StoreBatchFirstLoop(directory, hash_table,
                              ResultsOf(directory, KeysIn(r.items), cfg.compute_hash),
                              cfg.compute_hash)
               IN /\ directory' = st.directory
                  /\ hash_table' = st.hash_table
                  /\ pc' = IF st.ok THEN pcNext ELSE "crashed"
                  /\ UNCHANGED <<dif_table, dif_error_table, ram_cache, block_progress_dict>>
          ELSE IF cfg.batch_args
          THEN LET errors == BatchErrors(directory, dif_table, r.items)
                   ok == /\ InsertErrorOk(dif_error_table, errors)
                         /\ cfg.use_ram_cache => ProgressOk(block_progress_dict, dif_table, r.items)
                   bpd == UpdateProgress(block_progress_dict, dif_table, r.items)
               IN IF ~ok
                  THEN /\ pc' = "crashed"
                       /\ UNCHANGED <<directory, hash_table, dif_table, dif_error_table,
                                      ram_cache, block_progress_dict>>
                  ELSE /\ dif_table' = StoreBatchSecondLoop(directory, dif_table, r.items)
                       /\ dif_error_table' = InsertBatchDiffError(dif_error_table, errors)
                       /\ ram_cache' = IF cfg.use_ram_cache
                                       THEN PruneCacheBatch(ram_cache, bpd) ELSE ram_cache
                       /\ block_progress_dict' = IF cfg.use_ram_cache
                                                 THEN PruneProgressBatch(ram_cache, bpd)
                                                 ELSE block_progress_dict
                       /\ pc' = pcNext
                       /\ UNCHANGED <<directory, hash_table>>
          ELSE LET errors == ItemErrors(directory, dif_table, KeysIn(r.items))
               IN IF ~InsertErrorOk(dif_error_table, errors)
                  THEN /\ pc' = "crashed"
                       /\ UNCHANGED <<directory, hash_table, dif_table, dif_error_table,
                                      ram_cache, block_progress_dict>>
                  ELSE /\ dif_table' = StoreItemSecondLoop(directory, dif_table, KeysIn(r.items))
                       /\ dif_error_table' = InsertBatchDiffError(dif_error_table, errors)
                       /\ ram_cache' = IF cfg.use_ram_cache
                                       THEN PruneCacheItem(ram_cache, dif_table') ELSE ram_cache
                       /\ pc' = pcNext
                       /\ UNCHANGED <<directory, hash_table, block_progress_dict>>

\* dequeue_fn(); self.commit()
LoopDequeue(first) ==
    /\ pc = At(first, "fl_deq", "sl_deq")
    /\ DequeueFn(first, FALSE, At(first, "fl_loop", "sl_loop"))
    /\ UNCHANGED roots
    /\ UNCHANGED <<ix, fs, cfg, state, cache_index, run, cmd_queue, handles, hist>>
    /\ IF pc' = "crashed" THEN UNCHANGED disk ELSE Commit

\* send_stop_signal
SendStopSignal(first) ==
    /\ pc = At(first, "fl_stop", "sl_stop")
    /\ cmd_queue' = cmd_queue \o Repeat(Stop, NumWorkers)
    /\ pc' = At(first, "fl_drain", "sl_drain")
    /\ UNCHANGED <<roots, hash_table, dif_error_table, ram_cache, block_progress_dict>>
    /\ UNCHANGED <<ix, fs, cfg, directory, dif_table, state, cache_index, run, disk,
                   result_queue, handles, counters, hist>>

\* while self.exit_counter < len(self.handles): dequeue_fn(drain=True); self.commit()
Drain(first) ==
    /\ pc = At(first, "fl_drain", "sl_drain")
    /\ counters.exit < NumWorkers
    /\ DequeueFn(first, TRUE, pc)
    /\ UNCHANGED roots
    /\ UNCHANGED <<ix, fs, cfg, state, cache_index, run, cmd_queue, handles, hist>>
    /\ IF pc' = "crashed" THEN UNCHANGED disk ELSE Commit

\* self.commit(); multiprocessing_epilogue
Epilogue(first) ==
    /\ pc = At(first, "fl_drain", "sl_drain")
    /\ counters.exit >= NumWorkers
    /\ pc' = At(first, "fl_end", "sl_end")
    /\ cmd_queue' = <<>>
    /\ handles' = 0
    /\ UNCHANGED <<roots, hash_table, dif_error_table, ram_cache, block_progress_dict>>
    /\ UNCHANGED <<ix, fs, cfg, directory, dif_table, state, cache_index, run,
                   result_queue, counters, hist>>
    /\ Commit

\* first_loop / internal_second_loop: if self.run: state = ..._DONE
StageEnd(first) ==
    /\ pc = At(first, "fl_end", "sl_end")
    /\ state' = IF run THEN At(first, "FIRST_LOOP_DONE", "SECOND_LOOP_DONE") ELSE state
    /\ pc' = At(first, "after_fl", "after_sl")
    /\ UNCHANGED <<roots, hash_table, dif_error_table, ram_cache, block_progress_dict>>
    /\ UNCHANGED <<ix, fs, cfg, directory, dif_table, cache_index, run, disk, cmd_queue,
                   result_queue, handles, counters, hist>>

\* a worker takes one message, handles it and answers; on the sentinel it answers None
\* and exits
Answer(item) ==
    IF item.kind = "stop" THEN None
    ELSE IF item.kind = "btask" THEN [item EXCEPT !.kind = "bres"]
    ELSE [item EXCEPT !.kind = "res"]

Worker ==
    /\ handles > 0
    /\ Len(cmd_queue) > 0
    /\ pc \notin Terminal
    /\ cmd_queue' = Tail(cmd_queue)
    /\ result_queue' = Append(result_queue, Answer(Head(cmd_queue)))
    /\ handles' = IF Head(cmd_queue).kind = "stop" THEN handles - 1 ELSE handles
    /\ UNCHANGED <<roots, hash_table, dif_error_table, ram_cache, block_progress_dict>>
    /\ UNCHANGED <<ix, fs, cfg, directory, dif_table, state, cache_index, run, pc, disk,
                   counters, hist>>

----------------------------------------------------------------------------
(* Pipeline driver: second loop *)

\* internal_second_loop: prepopulate_diff_table and db.commit(); the INSERT into a
\* table that already holds the pairs violates UNIQUE (key_a, key_b)
SecondLoopStart ==
    /\ pc = "sl_start"
    /\ IF DOMAIN dif_table # {} /\ CandidatePairs(directory, cfg.has_dir_b) # {}
       THEN pc' = "crashed" /\ UNCHANGED <<dif_table, disk>>
       ELSE /\ dif_table' = PrepopulateDiffTable(directory, cfg.sl_batch, cfg.has_dir_b)
            /\ disk' = [disk EXCEPT !.directory = directory, !.dif_table = dif_table',
                                    !.hash_table = hash_table,
                                    !.dif_error_table = dif_error_table]
            /\ pc' = IF cfg.sl_parallel THEN "sl_par" ELSE "sl_seq_entry"
    /\ ram_cache' = EmptyTable
    /\ UNCHANGED <<roots, hash_table, dif_error_table, block_progress_dict>>
    /\ UNCHANGED <<ix, fs, cfg, directory, state, cache_index, run, cmd_queue, result_queue,
                   handles, counters, hist>>

\* sequential_second_loop: the set-up before the while loop
SecondLoopSeqEntry ==
    /\ pc = "sl_seq_entry"
    /\ state' = "SECOND_LOOP_IN_PROGRESS"
    /\ counters' = [counters EXCEPT !.enq = 0, !.deq = 0]
    /\ cmd_queue' = <<>>
    /\ ram_cache' = EmptyTable
    /\ pc' = "sl_seq"
    /\ UNCHANGED <<roots, hash_table, dif_error_table, block_progress_dict>>
    /\ UNCHANGED <<ix, fs, cfg, directory, dif_table, cache_index, run, disk, result_queue,
                   handles, hist>>

\* sequential_second_loop: one iteration of while self.run; at the end of the blocks
\* __item_block returns False and len(args) raises
SecondLoopSeqStep ==
    /\ pc = "sl_seq"
    /\ run
    /\ LET args == ItemBlock(dif_table, cache_index)
           builds == cfg.use_ram_cache /\ BlockExists(dif_table, cache_index)
           b == GetCacheBlockThumb(dif_table, cache_index)
           built == IF builds THEN Put(ram_cache, cache_index, BuildThumbCache(b))
                    ELSE ram_cache
           errors == ItemErrors(directory, dif_table, args)
       IN IF builds /\ NotSquare(b)
          THEN /\ pc' = "crashed"
               /\ UNCHANGED <<dif_table, dif_error_table, ram_cache, cache_index, counters,
                              hist>>
          ELSE IF args = {} \/ ~InsertErrorOk(dif_error_table, errors)
          THEN /\ pc' = "crashed"
               /\ ram_cache' = built
               /\ UNCHANGED <<dif_table, dif_error_table, cache_index, counters, hist>>
          ELSE /\ dif_table' = StoreItemSecondLoop(directory, dif_table, args)
               /\ dif_error_table' = InsertBatchDiffError(dif_error_table, errors)
               /\ ram_cache' = IF cfg.use_ram_cache THEN PruneCacheItem(built, dif_table')
                               ELSE built
               /\ cache_index' = cache_index + 1
               /\ counters' = [counters EXCEPT !.enq = @ + Cardinality(args),
                                               !.deq = @ + Cardinality(args)]
               /\ hist' = [hist EXCEPT !.loaded = @ \cup {cache_index},
                                       !.reloaded = @ \/ cache_index \in hist.loaded]
               /\ pc' = "sl_seq"
    /\ UNCHANGED <<roots, hash_table, block_progress_dict>>
    /\ UNCHANGED <<ix, fs, cfg, directory, state, run, disk, cmd_queue, result_queue, handles>>

\* sequential_second_loop: the statements after the while loop, then back in
\* internal_second_loop
SecondLoopSeqExit ==
    /\ pc = "sl_seq"
    /\ ~run
    /\ state' = "SECOND_LOOP_DONE"
    /\ pc' = "sl_par"
    /\ UNCHANGED <<roots, hash_table, dif_error_table, ram_cache, block_progress_dict>>
    /\ UNCHANGED <<ix, fs, cfg, directory, dif_table, cache_index, run, disk, cmd_queue,
                   result_queue, handles, counters, hist>>

\* internal_second_loop: function pointers and the state update before generic_mp_loop
SecondLoopParEntry ==
    /\ pc = "sl_par"
    /\ state' = "SECOND_LOOP_IN_PROGRESS"
    /\ pc' = "sl_prefill"
    /\ UNCHANGED <<roots, hash_table, dif_error_table, ram_cache, block_progress_dict>>
    /\ UNCHANGED <<ix, fs, cfg, directory, dif_table, cache_index, run, disk, cmd_queue,
                   result_queue, handles, counters, hist>>

----------------------------------------------------------------------------
(* Environment: SIGINT, kill, relaunch *)

\* the SIGINT handler clears the run flag
Interrupt ==
    /\ run
    /\ pc \notin Terminal \cup {"launch", "recover"}
    /\ run' = FALSE
    /\ hist' = [hist EXCEPT !.interrupted = state]
    /\ UNCHANGED <<roots, hash_table, dif_error_table, ram_cache, block_progress_dict>>
    /\ UNCHANGED <<ix, fs, cfg, directory, dif_table, state, cache_index, pc, disk, cmd_queue,
                   result_queue, handles, counters>>

\* the process is killed: what is left is what was committed
Kill ==
    /\ pc \notin Terminal \cup {"launch", "recover"}
    /\ hist.killed = "no"
    /\ directory' = disk.directory
    /\ dif_table' = disk.dif_table
    /\ state' = disk.state
    /\ cache_index' = disk.cache_index
    /\ hash_table' = disk.hash_table
    /\ dif_error_table' = disk.dif_error_table
    /\ roots' = disk.roots
    /\ ram_cache' = EmptyTable
    /\ block_progress_dict' = EmptyTable
    /\ cmd_queue' = <<>>
    /\ result_queue' = <<>>
    /\ handles' = 0
    /\ pc' = "killed"
    /\ hist' = [hist EXCEPT !.killed = state]
    /\ UNCHANGED <<ix, fs, cfg, run, disk, counters>>

\* __init__ of a new process: the config file exists, the config is loaded from it
Relaunch ==
    /\ pc \in {"killed", "stopped"}
    /\ ~hist.relaunched
    /\ directory' = disk.directory
    /\ dif_table' = disk.dif_table
    /\ state' = disk.state
    /\ cache_index' = disk.cache_index
    /\ hash_table' = disk.hash_table
    /\ dif_error_table' = disk.dif_error_table
    /\ roots' = disk.roots
    /\ ram_cache' = EmptyTable
    /\ block_progress_dict' = EmptyTable
    /\ run' = TRUE
    /\ pc' = "recover"
    /\ hist' = [hist EXCEPT !.relaunched = TRUE, !.observed = disk.state]
    /\ UNCHANGED <<ix, fs, cfg, disk, cmd_queue, result_queue, handles, counters>>

\* __init__: self.recover_from_config(abort_recover) passes an argument the method does
\* not take
RecoverFromConfig ==
    /\ pc = "recover"
    /\ pc' = "crashed"
    /\ UNCHANGED <<roots, hash_table, dif_error_table, ram_cache, block_progress_dict>>
    /\ UNCHANGED <<ix, fs, cfg, directory, dif_table, state, cache_index, run, disk, cmd_queue,
                   result_queue, handles, counters, hist>>

Next ==
    \/ PerformIndex
    \/ Sizing
    \/ ComputeAfterIndex
    \/ FirstLoopStart
    \/ FirstLoopSeqStep
    \/ FirstLoopSeqEnd
    \/ \E first \in BOOLEAN : Preamble(first)
    \/ \E first \in BOOLEAN : LoopSubmit(first)
    \/ \E first \in BOOLEAN : LoopDequeue(first)
    \/ \E first \in BOOLEAN : SendStopSignal(first)
    \/ \E first \in BOOLEAN : Drain(first)
    \/ \E first \in BOOLEAN : Epilogue(first)
    \/ \E first \in BOOLEAN : StageEnd(first)
    \/ Worker
    \/ ComputeAfterFirstLoop
    \/ SecondLoopStart
    \/ SecondLoopSeqEntry
    \/ SecondLoopSeqStep
    \/ SecondLoopSeqExit
    \/ SecondLoopParEntry
    \/ ComputeAfterSecondLoop
    \/ Interrupt
    \/ Kill
    \/ Relaunch
    \/ RecoverFromConfig

Spec == Init /\ [][Next]_vars

----------------------------------------------------------------------------
(* Workers that end without their terminal None *)

ParallelPositions ==
    {"fl_loop", "fl_deq", "fl_stop", "fl_drain", "sl_loop", "sl_deq", "sl_stop", "sl_drain"}

\* a worker that found the command queue empty for child_proc_timeout seconds ends
\* itself; it emits nothing
WorkerExit ==
    /\ handles > 0
    /\ cmd_queue = <<>>
    /\ pc \in ParallelPositions
    /\ handles' = handles - 1
    /\ UNCHANGED <<roots, hash_table, dif_error_table, ram_cache, block_progress_dict>>
    /\ UNCHANGED <<ix, fs, cfg, directory, dif_table, state, cache_index, run, pc, disk,
                   cmd_queue, result_queue, counters, hist>>

NextWorkerExit == Next \/ WorkerExit

SpecWorkerExit == Init /\ [][NextWorkerExit]_vars

----------------------------------------------------------------------------
(* Properties *)

SecondLoopPositions ==
    {"sl_seq_entry", "sl_seq", "sl_par", "sl_prefill", "sl_loop", "sl_deq", "sl_stop",
     "sl_drain", "sl_end", "after_sl", "done"}

Planned == pc \in SecondLoopPositions /\ ~hist.relaunched /\ hist.killed = "no"

OkCount(dir_b) ==
    Cardinality({k \in DOMAIN directory :
                    directory[k].dir_b = dir_b /\ directory[k].success = OK})

AllCount(dir_b) == Cardinality({k \in DOMAIN directory : directory[k].dir_b = dir_b})

\* C1: along every execution of the driver the progress value never moves to an earlier
\* state of the order INIT < INDEXED_DIRS < ... < SECOND_LOOP_DONE (a kill, which throws
\* the uncommitted value away, is not a step of the driver), and no worker step changes it
C1_ProgressMonotone ==
    [][/\ pc' # "killed" => Rank(state') >= Rank(state)
       /\ Worker => state' = state]_vars

\* C2: whenever progress is FIRST_LOOP_DONE no file row is UNPROCESSED or PROCESSING, and
\* whenever progress is SECOND_LOOP_DONE no pair row has success = -1, also after SIGINT
C2_ProgressNamesCompletedState ==
    /\ state = "FIRST_LOOP_DONE" =>
          \A k \in DOMAIN directory : directory[k].success \notin {UNPROCESSED, PROCESSING}
    /\ state = "SECOND_LOOP_DONE" =>
          \A k \in DOMAIN dif_table : dif_table[k].success # PairUnset

\* C3: a driver killed during the first loop and relaunched observes
\* FIRST_LOOP_IN_PROGRESS, recovers without failing and leaves no row PROCESSING
C3_FirstLoopResume ==
    (hist.killed = "FIRST_LOOP_IN_PROGRESS" /\ hist.relaunched) =>
        /\ hist.observed = "FIRST_LOOP_IN_PROGRESS"
        /\ pc # "crashed"
        /\ pc # "recover" =>
              \A k \in DOMAIN directory : directory[k].success # PROCESSING

\* C4: a relaunched driver that comes to an end without a further interrupt has reached
\* SECOND_LOOP_DONE, and a run is never reported finished with another progress value
C4_EveryStageResumable ==
    /\ (hist.relaunched /\ pc \in {"done", "crashed"}) =>
          (pc = "done" /\ state = "SECOND_LOOP_DONE")
    /\ pc = "done" => state = "SECOND_LOOP_DONE"

\* C5: after the pairs are planned there are n(n-1)/2 rows with key_a < key_b for the n OK
\* files of a single partition, and nA * nB rows with key_a in A and key_b in B for two
\* partitions, no pair twice
C5_PairCoverage ==
    Planned =>
        /\ \A k, l \in DOMAIN dif_table :
              (dif_table[k].key_a = dif_table[l].key_a
                 /\ dif_table[k].key_b = dif_table[l].key_b) => k = l
        /\ IF cfg.has_dir_b
           THEN /\ Cardinality(DOMAIN dif_table) = AllCount(0) * AllCount(1)
                /\ \A k \in DOMAIN dif_table :
                      /\ directory[dif_table[k].key_a].dir_b = 0
                      /\ directory[dif_table[k].key_b].dir_b = 1
           ELSE /\ 2 * Cardinality(DOMAIN dif_table) = OkCount(0) * (OkCount(0) - 1)
                /\ \A k \in DOMAIN dif_table : dif_table[k].key_a < dif_table[k].key_b

\* C6: after the pairs are planned no pair row refers to a file entry with success = ERROR
C6_ErrorFilesExcluded ==
    Planned =>
        \A k \in DOMAIN dif_table :
            /\ directory[dif_table[k].key_a].success # ERROR
            /\ directory[dif_table[k].key_b].success # ERROR

\* C7: every pair row has block_a = key_a div B, and block_b = (key_b - min key of
\* partition B) div B with two partitions or key_b div B with one
C7_BlockAssignment ==
    \A k \in DOMAIN dif_table :
        LET r == dif_table[k]
            keys_b == {f \in DOMAIN directory : directory[f].dir_b = 1}
        IN /\ r.block_a = r.key_a \div cfg.sl_batch
           /\ r.block_b = IF cfg.has_dir_b
                          THEN (r.key_b - Min(keys_b)) \div cfg.sl_batch
                          ELSE r.key_b \div cfg.sl_batch

\* a two-partition plan in which the offset of partition B decides block_b
C7_Witness ==
    /\ cfg.has_dir_b
    /\ \E k \in DOMAIN dif_table :
          /\ dif_table[k].block_b # dif_table[k].key_b \div cfg.sl_batch
          /\ dif_table[k].block_b > 0

\* C8: rows of one (block_a, block_b) share one block_key, distinct blocks have distinct
\* keys, the keys are consecutive, and they increase row-major with two partitions and
\* by (block_b - block_a, block_b + block_a) with one
C8_BlockKeyDenseRank ==
    LET keys == {dif_table[k].block_key : k \in DOMAIN dif_table}
    IN /\ \A k, l \in DOMAIN dif_table :
             LET r == dif_table[k]
                 q == dif_table[l]
             IN /\ (r.block_a = q.block_a /\ r.block_b = q.block_b)
                      <=> r.block_key = q.block_key
                /\ IF cfg.has_dir_b
                   THEN (r.block_a < q.block_a
                           \/ (r.block_a = q.block_a /\ r.block_b < q.block_b))
                        => r.block_key < q.block_key
                   ELSE (r.block_b - r.block_a < q.block_b - q.block_a
                           \/ (r.block_b - r.block_a = q.block_b - q.block_a
                                 /\ r.block_b + r.block_a < q.block_b + q.block_a))
                        => r.block_key < q.block_key
       /\ \A b \in keys : b = Min(keys) \/ b - 1 \in keys

\* a single-partition plan in which the diagonal order differs from the row-major order
C8_Witness ==
    /\ ~cfg.has_dir_b
    /\ \E k, l \in DOMAIN dif_table :
          /\ dif_table[k].block_key < dif_table[l].block_key
          /\ dif_table[l].block_a < dif_table[k].block_a

\* C9: the persisted cursor is past a block only when the block is completed (so that a
\* resumed run skips only blocks whose pairs are all completed), and no block is
\* dispatched twice
C9_CursorSkipsOnlyCompleted ==
    /\ ~hist.reloaded
    /\ \A k \in DOMAIN disk.dif_table :
          disk.dif_table[k].block_key < disk.cache_index
             => disk.dif_table[k].success # PairUnset

\* C10: a call of take_preprocess_batch(n) hands out at most n rows, all UNPROCESSED
\* before, flips exactly those to PROCESSING, and hands out no row a second time
C10_TakeBatchAtomic ==
    [][LET handed == KeysIn(SubSeq(cmd_queue', Len(cmd_queue) + 1, Len(cmd_queue')))
           flipped == {k \in DOMAIN directory :
                          /\ directory[k].success # directory'[k].success
                          /\ directory'[k].success = PROCESSING}
       IN /\ (pc \in {"fl_prefill", "fl_loop"} /\ pc' \in {"fl_loop", "fl_deq", "fl_stop"})
             => /\ handed = flipped
                /\ Cardinality(handed) <= cfg.fl_batch
                /\ \A k \in handed : directory[k].success = UNPROCESSED
                /\ handed \cap hist.given = {}
          /\ ~hist'.twice]_vars

\* two calls have handed out two distinct rows and one of them is still PROCESSING
C10_Witness ==
    /\ cfg.fl_parallel
    /\ cfg.fl_batch = 1
    /\ Cardinality(hist.given) >= 2
    /\ \E k \in DOMAIN directory : directory[k].success = PROCESSING

----------------------------------------------------------------------------
(* Properties of the catalog after the first loop *)

HashFields(row) == {row.hash_0, row.hash_90, row.hash_180, row.hash_270}

RECURSIVE SumCount(_, _)
SumCount(rows, keys) ==
    IF keys = {} THEN 0 ELSE rows[Min(keys)].count + SumCount(rows, keys \ {Min(keys)})

\* C11: in every catalog state (path, partition) is unique among the file rows, a row
\* with success = OK has px > 0 and py > 0 and, when hashing was requested, all four hash
\* fields set, and a row with success = ERROR has an error message
C11_FileEntryInvariant ==
    /\ \A j, k \in DOMAIN directory :
          (directory[j].path = directory[k].path /\ directory[j].dir_b = directory[k].dir_b)
             => j = k
    /\ \A k \in DOMAIN directory :
          /\ directory[k].success = OK =>
                /\ directory[k].px > 0
                /\ directory[k].py > 0
                /\ cfg.compute_hash => NullKey \notin HashFields(directory[k])
          /\ directory[k].success = ERROR => directory[k].error # NoError

\* the first loop with hashing has stored a file as OK, with both partitions indexed
C11_Witness ==
    /\ cfg.compute_hash
    /\ fs.nA > 0 /\ fs.nB > 0
    /\ \E k \in DOMAIN directory :
          directory[k].success = OK /\ directory[k].hash_270 # NullKey

\* C12: with hashing, whatever results the first loop has stored (successful or failed,
\* in any batching), every hash field of a file row that is set references a row of the
\* hash table and the counts of the hash table add up to 4 times the number of OK files
C12_HashReferenceIntegrity ==
    cfg.compute_hash =>
       /\ \A k \in DOMAIN directory :
             HashFields(directory[k]) \ {NullKey} \subseteq DOMAIN hash_table.rows
       /\ SumCount(hash_table.rows, DOMAIN hash_table.rows)
             = 4 * Cardinality({k \in DOMAIN directory : directory[k].success = OK})

\* the keys of the results waiting in a queue
KeysQueued(q) == KeysIn(SelectSeq(q, LAMBDA m : m.kind = "res"))

\* C13: when the first loop stores results of which one carries an error, the stage is not
\* aborted: every result taken is stored, the failed ones as ERROR with their message and
\* the others as OK, with or without hashing
C13_ErrorsRecordedStageContinues ==
    [][/\ (pc \in {"fl_deq", "fl_drain"} /\ pc' # "killed") =>
             /\ pc' # "crashed"
             /\ \A k \in KeysQueued(result_queue) \ KeysQueued(result_queue') :
                   IF PreprocessFails(directory, k)
                   THEN directory'[k].success = ERROR /\ directory'[k].error # NoError
                   ELSE directory'[k].success = OK
       /\ (pc = "fl_seq" /\ cfg.fl_batch # NoBatch /\ pc' # "killed") => pc' # "crashed"]_vars

----------------------------------------------------------------------------
(* Properties of the second loop: errors, shutdown, cache *)

MaxDelta == 2

Deltas == 0..MaxDelta

\* C14: a pair whose comparison failed and whose result is stored, in item or in batch
\* mode, has success = 0 and its one row in dif_error_table, no other pair has a row
\* there, and for no delta is the pair among the duplicate pairs or the clusters
C14_FailedPairRecorded ==
    /\ \A k \in DOMAIN dif_table :
          (CompareFails(directory, dif_table, k) /\ dif_table[k].success # PairUnset) =>
             /\ dif_table[k].success = PairError
             /\ k \in dif_error_table
             /\ \A delta \in Deltas :
                   /\ k \notin GetDuplicatePairs(dif_table, delta)
                   /\ <<dif_table[k].key_a, dif_table[k].key_b>> \notin GetCluster(dif_table, delta)
    /\ \A k \in dif_error_table : k \in DOMAIN dif_table /\ dif_table[k].success = PairError

\* a batch result with a failed pair is stored next to a pair that succeeded
C14_Witness ==
    /\ cfg.batch_args
    /\ \E k \in dif_error_table : dif_table[k].success = PairError
    /\ \E k \in DOMAIN dif_table : dif_table[k].success = PairOk

\* the messages of a kind in a queue
CountKind(q, kind) == Cardinality({i \in 1..Len(q) : q[i].kind = kind})

\* what was dispatched in a stage has its result stored
AllStored(first) ==
    IF first
    THEN \A k \in hist.given : directory[k].success \in {ERROR, OK}
    ELSE \A k \in DOMAIN dif_table :
            dif_table[k].block_key \in hist.loaded => dif_table[k].success # PairUnset

\* C15: at the end of a stage the driver puts exactly one sentinel per spawned worker on
\* the command queue; it leaves the drain loop only when it has counted one None per
\* worker, every worker has exited, and every result emitted was dequeued and stored
C15_ShutdownProtocol ==
    [][/\ (pc \in {"fl_stop", "sl_stop"} /\ pc' \in {"fl_drain", "sl_drain"}) =>
             /\ CountKind(cmd_queue, "stop") = 0
             /\ CountKind(cmd_queue', "stop") = handles
             /\ handles = NumWorkers
       /\ (pc \in {"fl_drain", "sl_drain"} /\ pc' \in {"fl_end", "sl_end"}) =>
             /\ counters.exit = NumWorkers
             /\ handles = 0
             /\ cmd_queue = <<>>
             /\ result_queue = <<>>
             /\ AllStored(pc = "fl_drain")
       /\ Worker =>
             IF Head(cmd_queue).kind = "stop"
             THEN /\ handles' = handles - 1
                  /\ result_queue' = Append(result_queue, None)
             ELSE handles' = handles /\ CountKind(result_queue', "none") = CountKind(result_queue, "none")]_vars

\* the driver has left the drain loop of the second loop after storing results
C15_Witness ==
    /\ pc = "sl_end"
    /\ counters.exit = NumWorkers
    /\ counters.deq >= 2
    /\ hist.loaded # {}

\* C16: the shutdown of a stage completes even if a worker ended without its terminal
\* None: the driver is never left in the drain loop with every worker gone, nothing to
\* dequeue and fewer None counted than workers spawned
C16_ShutdownCompletes ==
    (pc \in {"fl_drain", "sl_drain"} /\ handles = 0 /\ result_queue = <<>>)
       => counters.exit >= NumWorkers

\* a block is in flight while one of its dispatched tasks has no stored result
InFlightBlocks ==
    {bk \in hist.loaded :
        \E k \in BlockRows(dif_table, bk) : dif_table[k].success = PairUnset}

\* C17: with the RAM cache enabled, in item and in batch mode, the number of live cache
\* entries is at most the number of blocks in flight plus one
C17_CachePruningBound ==
    cfg.use_ram_cache =>
       Cardinality(DOMAIN ram_cache) <= Cardinality(InFlightBlocks) + 1

\* the tasks of block bk that wait in a queue, as tasks or as results
QueuedFor(q, bk) ==
    {i \in 1..Len(q) : q[i].keys # {} /\ CacheKeyOf(dif_table, q[i]) = bk}

\* C18: pruning removes only completed blocks: when an entry leaves the cache of a running
\* driver it is the entry of the lowest live block key, it leaves together with its
\* progress dictionary, and every task dispatched with that cache key has its result stored
C18_PruneOnlyCompleted ==
    [][pc' \notin {"killed", "recover"} =>
          \A bk \in DOMAIN ram_cache \ DOMAIN ram_cache' :
             /\ bk = Min(DOMAIN ram_cache)
             /\ bk \notin DOMAIN block_progress_dict'
             /\ \A k \in BlockRows(dif_table', bk) : dif_table'[k].success # PairUnset
             /\ QueuedFor(cmd_queue', bk) = {}
             /\ QueuedFor(result_queue', bk) = {}]_vars

\* a block has left the cache while a later block is still cached
C18_Witness ==
    /\ cfg.use_ram_cache
    /\ hist.killed = "no"
    /\ pc \in {"sl_loop", "sl_deq", "sl_stop", "sl_drain"}
    /\ DOMAIN ram_cache # {}
    /\ \E bk \in hist.loaded : bk \notin DOMAIN ram_cache

\* C19: in a second loop that uses the RAM cache no entry of the cache has x and y
\* referring to one shared ImageCache, also not for a block on the diagonal
C19_NoDiagonalAliasing ==
    cfg.use_ram_cache => \A bk \in DOMAIN ram_cache : ~ram_cache[bk].shared

----------------------------------------------------------------------------
(* Properties of sizing *)

\* cond_switch_a_b has run in this process
Sized == pc \notin {"launch", "sizing"} /\ hist.killed = "no"

\* the labels and the roots are those of the index, or both are exchanged
LabelsAre(swapped) ==
    /\ roots = IF swapped THEN <<"b", "a">> ELSE <<"a", IF cfg.has_dir_b THEN "b" ELSE "none">>
    /\ \A k \in DOMAIN directory :
          directory[k].dir_b = IF (directory[k].path[1] = "a") = swapped THEN 1 ELSE 0

\* C20 as stated: after sizing the labels of all file rows and the roots are exchanged if
\* and only if root B holds more files than root A
C20_SwapWhenBLarger ==
    Sized => LabelsAre(cfg.has_dir_b /\ fs.nB > fs.nA)

\* C20, amended: after sizing the labels of all file rows and the roots are exchanged if
\* and only if root A holds more files than root B, so that A is the smaller partition
C20_SwapWhenALarger ==
    Sized => LabelsAre(cfg.has_dir_b /\ fs.nA > fs.nB)

\* sizing has exchanged the partitions of an index with files under both roots
C20_Witness ==
    /\ Sized
    /\ fs.nB > 0
    /\ fs.nA > fs.nB
    /\ roots = <<"b", "a">>
    /\ \E k \in DOMAIN directory : directory[k].dir_b = 1 /\ directory[k].path[1] = "a"

----------------------------------------------------------------------------
(* Swap correctness *)

\* the pairs of a plan, as pairs of paths
PathPairs(d) ==
    {<<d[p[1]].path, d[p[2]].path>> : p \in CandidatePairs(d, TRUE)}

\* full_index with the two roots given in the other order: B as root_dir_a, A as root_dir_b
MirroredIndex ==
    SetKeysZeroIndex(CondSwitchAB(
        BulkInsertFile(BulkInsertFile(EmptyTable, "b", fs.nB, 0), "a", fs.nA, 1), TRUE))

\* swap_dir_b keeps path, success, dimensions and hash references of every row of d and
\* exchanges its label
SwapPreserves(d) ==
    LET s == SwapDirB(d)
        content(r) == <<r.path, r.success, r.error, r.px, r.py,
                        r.hash_0, r.hash_90, r.hash_180, r.hash_270>>
    IN /\ Cardinality(DOMAIN s) = Cardinality(DOMAIN d)
       /\ \A k \in DOMAIN d : \E j \in DOMAIN s :
             /\ content(s[j]) = content(d[k])
             /\ s[j].dir_b = 1 - d[k].dir_b

\* C21: with |A| < |B| the plan over (A, B) holds the same pairs of files, up to exchange
\* of the two sides, as the plan over (B, A), the planned pair rows are those pairs, and
\* the swap keeps path, success, dimensions and hash references of every file row
C21_SwapCorrectness ==
    (Sized /\ cfg.has_dir_b /\ fs.nA < fs.nB) =>
        /\ \/ PathPairs(directory) = PathPairs(MirroredIndex)
           \/ PathPairs(directory) = {<<p[2], p[1]>> : p \in PathPairs(MirroredIndex)}
        /\ dif_table # EmptyTable =>
              {<<directory[dif_table[k].key_a].path, directory[dif_table[k].key_b].path>> :
                  k \in DOMAIN dif_table} = PathPairs(MirroredIndex)
        /\ SwapPreserves(directory)

\* a plan over a smaller A and a larger B with a processed, hashed file and planned pairs
C21_Witness ==
    /\ Sized /\ cfg.has_dir_b
    /\ 0 < fs.nA /\ fs.nA < fs.nB
    /\ dif_table # EmptyTable
    /\ PathPairs(MirroredIndex) # {}
    /\ \E k \in DOMAIN directory : directory[k].success = OK /\ directory[k].hash_0 # NullKey

----------------------------------------------------------------------------
(* Hash short-circuit in item mode *)

\* the two files of pair row k carry the same hash under some rotation
SharesHash(d, t, k) ==
    (HashFields(d[t[k].key_a]) \cap HashFields(d[t[k].key_b])) \ {NullKey} # {}

\* C22: in item mode no pair whose two files share a hash under some rotation is
\* dispatched to a compare worker (it is marked dif = 0, success = 1 by the driver instead)
C22_HashShortCircuit ==
    (pc \in SecondLoopPositions /\ cfg.sl_parallel /\ ~cfg.batch_args) =>
        \A i \in 1..Len(cmd_queue) :
            cmd_queue[i].kind = "task" =>
                \A k \in cmd_queue[i].keys : ~SharesHash(directory, dif_table, k)

----------------------------------------------------------------------------
(* Clusters of duplicates *)

\* get_cluster: the (head, {other path: dif}) entries in the order they are yielded
GetClusterYieldMutDropLast(d, t, delta, group_a) ==
    LET Q == {k \in DOMAIN t : t[k].dif < delta /\ t[k].success = PairOk}
        before(j, k) ==
            IF group_a
            THEN t[j].key_a < t[k].key_a \/ (t[j].key_a = t[k].key_a /\ t[j].key_b < t[k].key_b)
            ELSE t[j].key_b < t[k].key_b \/ (t[j].key_b = t[k].key_b /\ t[j].key_a < t[k].key_a)
        n == Cardinality(Q)
        row[i \in 1..n] ==
            LET k == CHOOSE k \in Q : Cardinality({j \in Q : before(j, k)}) = i - 1
            IN <<d[t[k].key_a].path, d[t[k].key_b].path, t[k].dif>>
        headOf(r) == IF group_a THEN r[1] ELSE r[2]
        other(r) == IF group_a THEN r[2] ELSE r[1]
        dict(acc) ==
            [p \in {other(acc[i]) : i \in 1..Len(acc)} |->
                acc[CHOOSE i \in 1..Len(acc) :
                       other(acc[i]) = p /\ \A j \in (i + 1)..Len(acc) : other(acc[j]) # p][3]]
        st[i \in 1..n] ==
            IF i = 1 THEN [head |-> headOf(row[1]), acc |-> <<row[1]>>, out |-> <<>>]
            ELSE LET s == st[i - 1]
                 IN IF headOf(row[i]) = s.head
                    THEN [s EXCEPT !.acc = Append(@, row[i])]
                    ELSE [head |-> headOf(row[i]), acc |-> <<row[i]>>,
                          out |-> Append(s.out, <<s.head, dict(s.acc)>>)]
    IN IF n = 0 THEN <<>>
       ELSE st[n].out

GetClusterYield(d, t, delta, group_a) ==
    LET Q == {k \in DOMAIN t : t[k].dif < delta /\ t[k].success = PairOk}
        before(j, k) ==
            IF group_a
            THEN t[j].key_a < t[k].key_a \/ (t[j].key_a = t[k].key_a /\ t[j].key_b < t[k].key_b)
            ELSE t[j].key_b < t[k].key_b \/ (t[j].key_b = t[k].key_b /\ t[j].key_a < t[k].key_a)
        n == Cardinality(Q)
        row[i \in 1..n] ==
            LET k == CHOOSE k \in Q : Cardinality({j \in Q : before(j, k)}) = i - 1
            IN <<d[t[k].key_a].path, d[t[k].key_b].path, t[k].dif>>
        headOf(r) == IF group_a THEN r[1] ELSE r[2]
        other(r) == IF group_a THEN r[2] ELSE r[1]
        dict(acc) ==
            [p \in {other(acc[i]) : i \in 1..Len(acc)} |->
                acc[CHOOSE i \in 1..Len(acc) :
                       other(acc[i]) = p /\ \A j \in (i + 1)..Len(acc) : other(acc[j]) # p][3]]
        st[i \in 1..n] ==
            IF i = 1 THEN [head |-> headOf(row[1]), acc |-> <<row[1]>>, out |-> <<>>]
            ELSE LET s == st[i - 1]
                 IN IF headOf(row[i]) = s.head
                    THEN [s EXCEPT !.acc = Append(@, row[i])]
                    ELSE [head |-> headOf(row[i]), acc |-> <<row[i]>>,
                          out |-> Append(s.out, <<s.head, dict(s.acc)>>)]
    IN IF n = 0 THEN <<>>
       ELSE Append(st[n].out, <<st[n].head, dict(st[n].acc)>>)

\* the key of the file row with a path
KeyOfPath(d, path) == CHOOSE k \in DOMAIN d : d[k].path = path

\* C23: for every delta and either grouping get_diff_clusters yields, ordered by the
\* grouping key, exactly one entry per distinct anchor file with a pair of success = 1 and
\* dif < delta, every such pair is in exactly one yielded cluster, that of its anchor, with
\* its dif, no other pair is in a cluster, and nothing is yielded when no pair qualifies
C23_ClustersPartitionPairs ==
    Planned =>
        \A delta \in Deltas : \A group_a \in BOOLEAN :
            LET Y == GetClusterYield(directory, dif_table, delta, group_a)
                Q == {k \in DOMAIN dif_table :
                         dif_table[k].dif < delta /\ dif_table[k].success = PairOk}
                anchor(k) == directory[IF group_a THEN dif_table[k].key_a
                                       ELSE dif_table[k].key_b].path
                member(k) == directory[IF group_a THEN dif_table[k].key_b
                                       ELSE dif_table[k].key_a].path
                holds(i, k) == /\ Y[i][1] = anchor(k)
                               /\ member(k) \in DOMAIN Y[i][2]
                               /\ Y[i][2][member(k)] = dif_table[k].dif
            IN /\ \A i, j \in 1..Len(Y) :
                     i < j => KeyOfPath(directory, Y[i][1]) < KeyOfPath(directory, Y[j][1])
               /\ {Y[i][1] : i \in 1..Len(Y)} = {anchor(k) : k \in Q}
               /\ \A k \in Q : Cardinality({i \in 1..Len(Y) : holds(i, k)}) = 1
               /\ \A i \in 1..Len(Y) : \A p \in DOMAIN Y[i][2] :
                     \E k \in Q : anchor(k) = Y[i][1] /\ member(k) = p
               /\ (Q = {}) = (Y = <<>>)

\* two clusters are yielded, one of them with two files
C23_Witness ==
    /\ Planned
    /\ \E delta \in Deltas : \E group_a \in BOOLEAN :
          LET Y == GetClusterYield(directory, dif_table, delta, group_a)
          IN /\ Len(Y) >= 2
             /\ \E i \in 1..Len(Y) : Cardinality(DOMAIN Y[i][2]) >= 2
    /\ GetClusterYield(directory, dif_table, 0, TRUE) = <<>>

----------------------------------------------------------------------------
(* Indexing: the directory walk of __recursive_index and bulk_insert_file *)

MaxListing == 3
MaxSubListing == 2
MaxBatchDir == 2

\* the names of the walked trees: [stem, ext, dir], dir for os.path.isdir
WalkNames ==
    [root |-> {[stem |-> "x", ext |-> ".png", dir |-> FALSE],
               [stem |-> "y", ext |-> ".PNG", dir |-> FALSE],
               [stem |-> "z", ext |-> ".txt", dir |-> FALSE],
               [stem |-> "skip", ext |-> ".png", dir |-> FALSE],
               [stem |-> "d", ext |-> "", dir |-> TRUE],
               [stem |-> "g", ext |-> "", dir |-> TRUE],
               [stem |-> ".temp_thumbnails", ext |-> "", dir |-> TRUE]},
     sub |-> {[stem |-> "x", ext |-> ".png", dir |-> FALSE],
              [stem |-> "y", ext |-> ".PNG", dir |-> FALSE],
              [stem |-> "e", ext |-> "", dir |-> TRUE]},
     leaf |-> <<[stem |-> "x", ext |-> ".png", dir |-> FALSE]>>]

\* config.allowed_file_extensions, config.ignore_names, config.ignore_paths of the walks
WalkConfig ==
    [allowed_file_extensions |-> {".png"},
     ignore_names |-> {[stem |-> "skip", ext |-> ".png", dir |-> FALSE]},
     ignore_paths |-> {<<[stem |-> "d", ext |-> "", dir |-> TRUE],
                         [stem |-> "y", ext |-> ".PNG", dir |-> FALSE]>>}]

\* file_name.startswith(".temp_thumb")
StartsWithTempThumb(file_name) == file_name.stem \in {".temp_thumb", ".temp_thumbnails"}

\* str.lower on an extension
Lower(ext) == IF ext = ".PNG" THEN ".png" ELSE IF ext = ".TXT" THEN ".txt" ELSE ext

\* the sequences of at most n distinct elements of S
Arrangements(S, n) ==
    {q \in UNION {[1..m -> S] : m \in 0..n} : \A i, j \in 1..Len(q) : q[i] = q[j] => i = j}

\* os.listdir of a directory of the tree, the path taken from the root
Listing(tree, path) ==
    IF Len(path) = 0 THEN tree.root ELSE IF Len(path) = 1 THEN tree.sub ELSE WalkNames.leaf

\* a call frame of __recursive_index on a directory
Frame(tree, path, dir_count) ==
    [path |-> path, todo |-> Listing(tree, path), dirs |-> <<>>, files |-> <<>>,
     dir_count |-> dir_count, mode |-> "list"]

\* bulk_insert_file: one INSERT per name, in order; a row with the (path, dir_b) of a name
\* violates UNIQUE (path, dir_b) and the call raises, the names before it being inserted
RECURSIVE BulkInsertNames(_, _, _, _)
BulkInsertNames(d, path, filenames, dir_b) ==
    IF Len(filenames) = 0 THEN [ok |-> TRUE, directory |-> d]
    ELSE LET full == Append(path, Head(filenames))
         IN IF \E k \in DOMAIN d : d[k].path = full /\ d[k].dir_b = dir_b
            THEN [ok |-> FALSE, directory |-> d]
            ELSE BulkInsertNames(
                     [k \in DOMAIN d \cup {NextKey(d)} |->
                         IF k \in DOMAIN d THEN d[k] ELSE NewRow(full, dir_b)],
                     path, Tail(filenames), dir_b)

\* the walks: a tree, batch_size_dir, the root walked, the first call of __recursive_index
WalkInputs ==
    {[status |-> "walking", tree |-> [root |-> r, sub |-> q], batch_size_dir |-> b,
      dir_a |-> a, stack |-> <<Frame([root |-> r, sub |-> q], <<>>, 0)>>, peak |-> 0,
      call |-> <<>>] :
        r \in Arrangements(WalkNames.root, MaxListing),
        q \in Arrangements(WalkNames.sub, MaxSubListing),
        b \in 1..MaxBatchDir, a \in BOOLEAN}

InitIndex ==
    /\ ix \in WalkInputs
    /\ fs = [nA |-> 0, nB |-> 0, bad |-> {}]
    /\ cfg = [has_dir_b |-> TRUE, compute_hash |-> FALSE, fl_parallel |-> FALSE,
              fl_batch |-> 1, sl_parallel |-> FALSE, sl_batch |-> 1, batch_args |-> FALSE,
              use_ram_cache |-> TRUE]
    /\ directory = EmptyTable
    /\ dif_table = EmptyTable
    /\ state = "INIT"
    /\ cache_index = InitialCacheIndex
    /\ run = TRUE
    /\ pc = "launch"
    /\ roots = <<"a", "b">>
    /\ hash_table = EmptyHashTable
    /\ dif_error_table = {}
    /\ ram_cache = EmptyTable
    /\ block_progress_dict = EmptyTable
    /\ disk = Snapshot(EmptyTable, EmptyTable, EmptyHashTable, {}, "INIT", InitialCacheIndex,
                       roots)
    /\ cmd_queue = <<>>
    /\ result_queue = <<>>
    /\ handles = 0
    /\ counters = [enq |-> 0, deq |-> 0, exit |-> 0]
    /\ hist = FreshHist

\* a step of the walk: the new top frame (or none), the result of the inserts, the buffer
WalkStep(frames, r, buffered) ==
    /\ directory' = r.directory
    /\ ix' = [ix EXCEPT !.status = IF ~r.ok THEN "raised"
                                   ELSE IF Len(ix.stack) - 1 + Len(frames) = 0 THEN "done"
                                   ELSE "walking",
                        !.stack = SubSeq(ix.stack, 1, Len(ix.stack) - 1) \o frames,
                        !.peak = IF buffered > @ THEN buffered ELSE @]
    /\ UNCHANGED <<fs, cfg, roots, hash_table, dif_error_table, ram_cache,
                   block_progress_dict, dif_table, state, cache_index, run, pc, disk,
                   cmd_queue, result_queue, handles, counters, hist>>

\* __recursive_index, one iteration of the loop over os.listdir(path)
IndexEntry ==
    /\ ix.status = "walking"
    /\ LET f == ix.stack[Len(ix.stack)]
           dir_b == IF ix.dir_a THEN 0 ELSE 1
       IN /\ f.mode = "list"
          /\ Len(f.todo) > 0
          /\ LET file_name == Head(f.todo)
                 full_path == Append(f.path, file_name)
                 skip == \/ full_path \in WalkConfig.ignore_paths
                         \/ file_name \in WalkConfig.ignore_names
                         \/ StartsWithTempThumb(file_name)
                 dirs == IF ~skip /\ file_name.dir THEN Append(f.dirs, full_path) ELSE f.dirs
                 files == IF /\ ~skip
                             /\ ~file_name.dir
                             /\ Lower(file_name.ext) \in WalkConfig.allowed_file_extensions
                          THEN Append(f.files, file_name) ELSE f.files
                 flush == ~skip /\ Len(files) > ix.batch_size_dir
                 r1 == IF flush THEN BulkInsertNames(directory, f.path, files, dir_b)
                       ELSE [ok |-> TRUE, directory |-> directory]
                 files1 == IF flush THEN <<>> ELSE files
                 early == ~skip /\ Len(dirs) + f.dir_count > ix.batch_size_dir
                 r2 == IF early /\ r1.ok
                       THEN BulkInsertNames(r1.directory, f.path, files1, dir_b) ELSE r1
             IN WalkStep(<<[f EXCEPT !.todo = Tail(@), !.dirs = dirs,
                                     !.files = IF early THEN <<>> ELSE files1,
                                     !.mode = IF early THEN "early" ELSE "list"]>>,
                         r2, Len(files))

\* __recursive_index, while len(dirs) > 0: d = dirs.pop(), the recursive call is entered
IndexRecurse ==
    /\ ix.status = "walking"
    /\ LET f == ix.stack[Len(ix.stack)]
       IN /\ f.mode \in {"early", "final"}
          /\ Len(f.dirs) > 0
          /\ LET rest == SubSeq(f.dirs, 1, Len(f.dirs) - 1)
             IN WalkStep(<<[f EXCEPT !.dirs = rest],
                           Frame(ix.tree, f.dirs[Len(f.dirs)], f.dir_count + Len(rest))>>,
                         [ok |-> TRUE, directory |-> directory], 0)

\* __recursive_index, the early recursion is over and the listing goes on
IndexResume ==
    /\ ix.status = "walking"
    /\ LET f == ix.stack[Len(ix.stack)]
       IN /\ f.mode = "early"
          /\ Len(f.dirs) = 0
          /\ WalkStep(<<[f EXCEPT !.mode = "list"]>>, [ok |-> TRUE, directory |-> directory], 0)

\* __recursive_index, after the listing: the buffered names are stored
IndexFlush ==
    /\ ix.status = "walking"
    /\ LET f == ix.stack[Len(ix.stack)]
       IN /\ f.mode = "list"
          /\ Len(f.todo) = 0
          /\ WalkStep(<<[f EXCEPT !.files = <<>>, !.mode = "final"]>>,
                      BulkInsertNames(directory, f.path, f.files, IF ix.dir_a THEN 0 ELSE 1),
                      0)

\* __recursive_index returns
IndexReturn ==
    /\ ix.status = "walking"
    /\ LET f == ix.stack[Len(ix.stack)]
       IN /\ f.mode = "final"
          /\ Len(f.dirs) = 0
          /\ WalkStep(<<>>, [ok |-> TRUE, directory |-> directory], 0)

\* a call of bulk_insert_file on the catalog of a finished walk
BulkInsertFileCall ==
    /\ ix.status = "done"
    /\ \E path \in {<<>>} :
       \E filenames \in Arrangements(WalkNames.sub, MaxSubListing) \ {<<>>} :
       \E dir_b \in {0, 1} :
          LET r == BulkInsertNames(directory, path, filenames, dir_b)
          IN /\ directory' = r.directory
             /\ ix' = [ix EXCEPT !.status = IF r.ok THEN "called" ELSE "raised",
                                 !.call = <<path, filenames, dir_b>>]
    /\ UNCHANGED <<fs, cfg, roots, hash_table, dif_error_table, ram_cache,
                   block_progress_dict, dif_table, state, cache_index, run, pc, disk,
                   cmd_queue, result_queue, handles, counters, hist>>

NextIndex ==
    \/ IndexEntry
    \/ IndexRecurse
    \/ IndexResume
    \/ IndexFlush
    \/ IndexReturn
    \/ BulkInsertFileCall

SpecIndex == InitIndex /\ [][NextIndex]_vars

\* C24: a call of bulk_insert_file with a name whose (path, partition) is already
\* catalogued succeeds, leaves the rows of the catalog as they are, adds no row for that
\* name and inserts the other names of the call
C24_InsertIgnoresDuplicates ==
    [][(ix.status = "done" /\ ix'.status \in {"called", "raised"}) =>
          LET path == ix'.call[1]
              filenames == ix'.call[2]
              dir_b == ix'.call[3]
              at(d, i) == {k \in DOMAIN d :
                              d[k].path = Append(path, filenames[i]) /\ d[k].dir_b = dir_b}
              fresh == {i \in 1..Len(filenames) : at(directory, i) = {}}
          IN /\ ix'.status = "called"
             /\ \A k \in DOMAIN directory :
                   k \in DOMAIN directory' /\ directory'[k] = directory[k]
             /\ Cardinality(DOMAIN directory') =
                   Cardinality(DOMAIN directory) + Cardinality(fresh)
             /\ \A i \in 1..Len(filenames) : Cardinality(at(directory', i)) = 1]_vars

\* the regular files of a tree that are to be catalogued: the lowercased extension is
\* allowed, and neither the file nor a directory above it, below the root, is listed in
\* ignore_paths or ignore_names or has a name starting with .temp_thumb
Eligible(tree) ==
    LET names == WalkNames.root \cup WalkNames.sub
        exists(p) == \A i \in 1..Len(p) :
                        /\ \E j \in 1..Len(Listing(tree, SubSeq(p, 1, i - 1))) :
                              Listing(tree, SubSeq(p, 1, i - 1))[j] = p[i]
                        /\ i < Len(p) => p[i].dir
    IN {p \in UNION {[1..m -> names] : m \in 1..3} :
          /\ exists(p)
          /\ ~p[Len(p)].dir
          /\ Lower(p[Len(p)].ext) \in WalkConfig.allowed_file_extensions
          /\ \A i \in 1..Len(p) :
                /\ SubSeq(p, 1, i) \notin WalkConfig.ignore_paths
                /\ p[i] \notin WalkConfig.ignore_names
                /\ ~StartsWithTempThumb(p[i])}

\* C28: indexing inserts each eligible file exactly once with the label of its root and
\* nothing else, whatever batch_size_dir is, and at most batch_size_dir file names are
\* buffered for a directory before they are flushed
C28_IndexEligibleFiles ==
    /\ ix.status = "done" =>
          /\ {directory[k].path : k \in DOMAIN directory} = Eligible(ix.tree)
          /\ \A j, k \in DOMAIN directory : directory[j].path = directory[k].path => j = k
          /\ \A k \in DOMAIN directory : directory[k].dir_b = IF ix.dir_a THEN 0 ELSE 1
    /\ ix.status # "idle" => ix.peak <= ix.batch_size_dir

----------------------------------------------------------------------------
(* Persistence ordering *)

----------------------------------------------------------------------------
(* Block-mode result vectors *)

\* C26: for every batch task of the plan and every result vector diff of its length,
\* record_block_result(key_a, max_key_b, diff) stores diff[i] in the pair row
\* (key_a, max_key_b - i) for every i < len(diff), marks it success = 1 and writes no
\* other row (on the diagonal of a single root a task covers key_b values that are no
\* pair of its key_a: they have no row and nothing is written for them)
C26_BlockResultIndexing ==
    Planned =>
        \A bk \in {dif_table[k].block_key : k \in DOMAIN dif_table} :
        \A task \in TaskBlockKey(dif_table, bk) :
        \A diff \in [1..task.n -> Deltas] :
            LET t == InsertBatchDiffBlockResult(dif_table, task.key_a, task.key_b, diff)
                at(i) == {k \in DOMAIN dif_table :
                             /\ dif_table[k].key_a = task.key_a
                             /\ dif_table[k].key_b = task.key_b - i}
            IN /\ DOMAIN t = DOMAIN dif_table
               /\ \A i \in 0..(task.n - 1) :
                     /\ Cardinality(at(i)) <= 1
                     /\ (cfg.has_dir_b \/ task.key_a < task.key_b - i) => at(i) # {}
                     /\ \A k \in at(i) :
                           t[k] = [dif_table[k] EXCEPT !.dif = diff[i + 1], !.success = PairOk]
               /\ \A k \in DOMAIN t \ UNION {at(i) : i \in 0..(task.n - 1)} :
                     t[k] = dif_table[k]

\* the result of a batch task over two pairs of one key_a is stored
C26_Witness ==
    /\ Planned
    /\ cfg.batch_args
    /\ \E j, k \in DOMAIN dif_table :
          /\ dif_table[j].key_a = dif_table[k].key_a
          /\ dif_table[j].block_key = dif_table[k].block_key
          /\ dif_table[j].key_b = dif_table[k].key_b - 1
          /\ dif_table[j].success = PairOk /\ dif_table[k].success = PairOk

----------------------------------------------------------------------------
(* Planning of the pairs *)

\* C27: the pairs are planned once per catalog, a second loop that starts on a planned
\* catalog keeps the pair rows, and progress becomes SECOND_LOOP_IN_PROGRESS only from
\* SECOND_LOOP_POPULATING
C27_PopulateOnceThroughPopulating ==
    [][/\ (state' = "SECOND_LOOP_IN_PROGRESS" /\ state # "SECOND_LOOP_IN_PROGRESS")
             => state = "SECOND_LOOP_POPULATING"
       /\ (pc = "sl_start" /\ dif_table # EmptyTable /\ pc' # "killed")
             => (pc' # "crashed" /\ dif_table' = dif_table)]_vars

----------------------------------------------------------------------------
(* Checkpoints *)

\* C29: in the first loop, sequential or parallel, and in the second loop, a step of the
\* driver that stores a batch of results commits the catalog and the configuration, so
\* that what is persisted is what the driver holds when it takes the next batch
C29_CommitAfterEachBatch ==
    [][(/\ pc \in {"fl_seq", "fl_deq", "fl_drain", "sl_seq", "sl_deq", "sl_drain"}
        /\ pc' \notin {"killed", "crashed"}
        /\ (directory' # directory \/ dif_table' # dif_table))
          => disk' = Snapshot(directory', dif_table', hash_table', dif_error_table', state',
                              cache_index', roots')]_vars

----------------------------------------------------------------------------
(* Dequeue thresholds of the second loop *)

MaxCount == 9

\* the dequeue function of the second loop on the result queue, for all values of the two
\* counters: outside drain mode it takes a first result iff dequeued + thr < enqueued and
\* leaves a result queued only when dequeued + thr < enqueued has become false, and in
\* drain mode it takes every result
DequeueTakesWhile(thr) ==
    \A enq \in 0..MaxCount : \A deq \in 0..enq :
        LET live == CountsInLoop(FALSE)
            r == Dequeue(result_queue, deq, enq, Threshold(FALSE), FALSE, live)
            all == Dequeue(result_queue, deq, enq, Threshold(FALSE), TRUE, live)
        IN /\ (Len(r.rest) < Len(result_queue)) = (Len(result_queue) > 0 /\ deq + thr < enq)
           /\ Len(r.rest) > 0 => ~((IF live THEN deq + r.count ELSE deq) + thr < enq)
           /\ all.rest = <<>>

\* C30 as stated: the batch-mode dequeue function takes a result only while
\* dequeued + 2 * block_size^2 < enqueued and the item-mode one only while
\* dequeued + batch_size * (number of worker handles) < enqueued; in drain mode both take
\* every available result
C30_ThresholdsAsStated ==
    (cfg.sl_parallel /\ pc \in {"sl_deq", "sl_drain"}) =>
        DequeueTakesWhile(IF cfg.batch_args THEN 2 * (cfg.sl_batch * cfg.sl_batch)
                          ELSE cfg.sl_batch * NumWorkers)

\* C30, amended: the item-mode dequeue function takes a result only while
\* dequeued + 2 * batch_size^2 < enqueued and the batch-mode one only while
\* dequeued + batch_size * (number of worker handles) < enqueued; in drain mode both take
\* every available result
C30_ThresholdsOfDequeue ==
    (cfg.sl_parallel /\ pc \in {"sl_deq", "sl_drain"}) =>
        DequeueTakesWhile(IF cfg.batch_args THEN cfg.sl_batch * NumWorkers
                          ELSE 2 * (cfg.sl_batch * cfg.sl_batch))

\* a dequeue of the second loop outside drain mode has taken a result and the loop goes on
C30_Witness ==
    /\ cfg.sl_parallel
    /\ pc = "sl_loop"
    /\ counters.deq > 0
    /\ counters.deq < counters.enq

----------------------------------------------------------------------------
(* Keys after sizing *)

\* C31: after indexing and sizing the file keys are exactly 0..n-1, and with two
\* partitions A occupies [0, |A|) and B occupies [|A|, n), whether or not the partitions
\* were exchanged
C31_DenseKeysAFirst ==
    Sized =>
        LET n == fs.nA + (IF cfg.has_dir_b THEN fs.nB ELSE 0)
            na == GetDirEntryCount(directory, 0)
        IN /\ DOMAIN directory = 0..(n - 1)
           /\ KeysOf(directory, 0) = 0..(na - 1)
           /\ KeysOf(directory, 1) = na..(n - 1)
           /\ \A a \in KeysOf(directory, 0), b \in KeysOf(directory, 1) : a < b

\* sizing has exchanged two non-empty partitions and renumbered the keys from 0
C31_Witness ==
    /\ Sized
    /\ roots = <<"b", "a">>
    /\ KeysOf(directory, 0) # {} /\ KeysOf(directory, 1) # {}
    /\ 0 \in DOMAIN directory
    /\ directory[0].path[1] = "b"
    /\ Cardinality(DOMAIN directory) = MaxFiles

----------------------------------------------------------------------------
(* The check of the two roots before indexing *)

MaxDepth == 2        \* components of a root path

\* absolute, normalised root paths: sequences of at most MaxDepth directory names, a name
\* being a sequence of characters ("i" and "i2" are names one of which starts the other)
RootPaths ==
    LET names == {<<"i">>, <<"i", "2">>, <<"o">>}
    IN UNION {[1..n -> names] : n \in 0..MaxDepth}

\* check_directories on the absolute paths a and b (b = <<"none">> when root_dir_b is None):
\* same parent directory: equal base names; otherwise one path string starts with the other
CheckDirectories(a, b) ==
    LET RECURSIVE Str(_)
        Str(p) == IF p = <<>> THEN <<>> ELSE <<"/">> \o Head(p) \o Str(Tail(p))
        abspath(p) == IF p = <<>> THEN <<"/">> ELSE Str(p)
        dirname(p) == IF p = <<>> THEN <<>> ELSE SubSeq(p, 1, Len(p) - 1)
        basename(p) == IF p = <<>> THEN <<>> ELSE p[Len(p)]
        startswith(s, t) == Len(t) <= Len(s) /\ SubSeq(s, 1, Len(t)) = t
    IN IF b = <<"none">> THEN FALSE
       ELSE IF dirname(a) = dirname(b) THEN basename(a) = basename(b)
       ELSE startswith(abspath(a), abspath(b)) \/ startswith(abspath(b), abspath(a))

InitRoots ==
    /\ ix \in [status : {"configured"}, root_dir_a : RootPaths,
               root_dir_b : RootPaths \cup {<<"none">>}, cleaned : {FALSE},
               walked : {<<>>}]
    /\ fs = [nA |-> 0, nB |-> 0, bad |-> {}]
    /\ cfg = [has_dir_b |-> FALSE, compute_hash |-> FALSE, fl_parallel |-> FALSE,
              fl_batch |-> 1, sl_parallel |-> FALSE, sl_batch |-> 1, batch_args |-> FALSE,
              use_ram_cache |-> TRUE]
    /\ directory = EmptyTable
    /\ dif_table = EmptyTable
    /\ state = "INIT"
    /\ cache_index = InitialCacheIndex
    /\ run = TRUE
    /\ pc = "launch"
    /\ roots = <<"a", "none">>
    /\ hash_table = EmptyHashTable
    /\ dif_error_table = {}
    /\ ram_cache = EmptyTable
    /\ block_progress_dict = EmptyTable
    /\ disk = Snapshot(EmptyTable, EmptyTable, EmptyHashTable, {}, "INIT", InitialCacheIndex,
                       roots)
    /\ cmd_queue = <<>>
    /\ result_queue = <<>>
    /\ handles = 0
    /\ counters = [enq |-> 0, deq |-> 0, exit |-> 0]
    /\ hist = FreshHist

\* perform_index: cleanup and ValueError when check_directories holds, otherwise the walk
\* of root_dir_a and then, if configured, of root_dir_b
PerformIndexRoots ==
    /\ ix.status = "configured"
    /\ ix' = IF CheckDirectories(ix.root_dir_a, ix.root_dir_b)
             THEN [ix EXCEPT !.status = "raised", !.cleaned = TRUE]
             ELSE [ix EXCEPT !.status = "indexed",
                             !.walked = IF ix.root_dir_b = <<"none">>
                                        THEN <<ix.root_dir_a>>
                                        ELSE <<ix.root_dir_a, ix.root_dir_b>>]
    /\ UNCHANGED <<fs, cfg, roots, hash_table, dif_error_table, ram_cache,
                   block_progress_dict, directory, dif_table, state, cache_index, run, pc,
                   disk, cmd_queue, result_queue, handles, counters, hist>>

NextRoots == PerformIndexRoots

SpecRoots == InitRoots /\ [][NextRoots]_vars

\* C32: perform_index fails, after cleanup and before any root is walked, exactly when
\* the two roots are the same directory or one is an ancestor of the other; with root B
\* absent or unrelated roots the walk proceeds
C32_CheckDirectoriesExact ==
    LET a == ix.root_dir_a
        b == ix.root_dir_b
        prefix(p, q) == Len(p) <= Len(q) /\ SubSeq(q, 1, Len(p)) = p
        related == b # <<"none">> /\ (prefix(a, b) \/ prefix(b, a))
    IN ix.status \in {"raised", "indexed"} =>
          /\ (ix.status = "raised") = related
          /\ ix.status = "raised" => (ix.cleaned /\ ix.walked = <<>>)
          /\ ix.status = "indexed" => ix.walked # <<>>

----------------------------------------------------------------------------
(* Square blocks on the diagonal *)

\* C33: for every planned block, with one or two partitions, lower_x + 1 = lower_y implies
\* size_x = size_y, so that building the block cache never raises "The block is not a
\* square"
C33_DiagonalBlocksSquare ==
    (Sized /\ dif_table # EmptyTable) =>
        \A bk \in {dif_table[k].block_key : k \in DOMAIN dif_table} :
            ~NotSquare(GetCacheBlockThumb(dif_table, bk))

----------------------------------------------------------------------------
(* Cache coverage *)

\* C34: every task on the command queue that carries a cache_key finds the cache of that
\* key published, and every pair it covers lies inside the cache: key_a - x.offset in
\* [0, x.size) and key_b - y.offset in [0, y.size), for a batch task for every
\* key_b = max_key_b - i with i < max_size_b that is a row of the block
C34_CacheCoverage ==
    (Planned /\ cfg.sl_parallel /\ cfg.use_ram_cache) =>
        \A i \in 1..Len(cmd_queue) :
            LET task == cmd_queue[i]
                bk == CacheKeyOf(dif_table, task)
                inside(c, key) == key - c.offset >= 0 /\ key - c.offset < c.size
                pairs == IF task.kind = "btask"
                         THEN {<<task.key_a, task.key_b - j>> : j \in 0..(task.n - 1)}
                                 \cap {<<dif_table[k].key_a, dif_table[k].key_b>> :
                                          k \in BlockRows(dif_table, bk)}
                         ELSE {<<dif_table[k].key_a, dif_table[k].key_b>> : k \in task.keys}
            IN task.kind \in {"task", "btask"} =>
                  /\ bk \in DOMAIN ram_cache
                  /\ pairs # {}
                  /\ \A p \in pairs : /\ inside(ram_cache[bk].x, p[1])
                                      /\ inside(ram_cache[bk].y, p[2])

\* a batch task of a diagonal block, whose two sides share one cache, is on the queue
C34_Witness ==
    /\ Planned /\ cfg.sl_parallel /\ cfg.use_ram_cache
    /\ \E i \in 1..Len(cmd_queue) :
          /\ cmd_queue[i].kind = "btask"
          /\ CacheKeyOf(dif_table, cmd_queue[i]) \in DOMAIN ram_cache
          /\ ram_cache[CacheKeyOf(dif_table, cmd_queue[i])].shared

----------------------------------------------------------------------------
(* Chaining from the first loop into the second loop *)

\* a call first_loop(chain), made by full_index(chain=True), by recover_from_config or
\* directly, with a FirstLoopConfig and todo indexed files on NumWorkers CPUs
InitChain ==
    /\ ix \in [status : {"called"}, chain : BOOLEAN, compress : BOOLEAN,
               compute_hash : BOOLEAN, parallel : BOOLEAN, todo : 0..MaxFiles,
               path : {"none"}, run : {TRUE}, state : {"INDEXED_DIRS"},
               second_loop : {FALSE}]
    /\ fs = [nA |-> 0, nB |-> 0, bad |-> {}]
    /\ cfg = [has_dir_b |-> FALSE, compute_hash |-> FALSE, fl_parallel |-> FALSE,
              fl_batch |-> 1, sl_parallel |-> FALSE, sl_batch |-> 1, batch_args |-> FALSE,
              use_ram_cache |-> TRUE]
    /\ directory = EmptyTable
    /\ dif_table = EmptyTable
    /\ state = "INDEXED_DIRS"
    /\ cache_index = InitialCacheIndex
    /\ run = TRUE
    /\ pc = "after_index"
    /\ roots = <<"a", "none">>
    /\ hash_table = EmptyHashTable
    /\ dif_error_table = {}
    /\ ram_cache = EmptyTable
    /\ block_progress_dict = EmptyTable
    /\ disk = Snapshot(EmptyTable, EmptyTable, EmptyHashTable, {}, "INDEXED_DIRS",
                       InitialCacheIndex, roots)
    /\ cmd_queue = <<>>
    /\ result_queue = <<>>
    /\ handles = 0
    /\ counters = [enq |-> 0, deq |-> 0, exit |-> 0]
    /\ hist = FreshHist

\* first_loop up to the start of a loop: the runtime configuration (sequential when
\* todo < cpu_count), the return when no computation is required, the choice of the loop
ChainFirstLoop ==
    /\ ix.status = "called"
    /\ ix' = IF ~(ix.compress \/ ix.compute_hash)
             THEN [ix EXCEPT !.status = "returned", !.path = "skip"]
             ELSE IF ~(ix.parallel /\ ~(ix.todo < NumWorkers))
             THEN [ix EXCEPT !.status = "looping", !.path = "sequential"]
             ELSE [ix EXCEPT !.status = "looping", !.path = "parallel",
                             !.state = "FIRST_LOOP_IN_PROGRESS"]
    /\ UNCHANGED <<fs, cfg, roots, hash_table, dif_error_table, ram_cache,
                   block_progress_dict, directory, dif_table, state, cache_index, run, pc,
                   disk, cmd_queue, result_queue, handles, counters, hist>>

\* SIGINT while the first loop runs: run = False
ChainInterrupt ==
    /\ ix.status = "looping"
    /\ ix.run
    /\ ix' = [ix EXCEPT !.run = FALSE]
    /\ UNCHANGED <<fs, cfg, roots, hash_table, dif_error_table, ram_cache,
                   block_progress_dict, directory, dif_table, state, cache_index, run, pc,
                   disk, cmd_queue, result_queue, handles, counters, hist>>

\* first_loop after its loop: sequential_first_loop() followed by return, or
\* generic_mp_loop() followed by the state update and "if chain: self.second_loop()"
ChainLoopEnd ==
    /\ ix.status = "looping"
    /\ ix' = [ix EXCEPT !.status = "returned",
                        !.state = IF ix.run THEN "FIRST_LOOP_DONE" ELSE @,
                        !.second_loop = ix.path = "parallel" /\ ix.chain]
    /\ UNCHANGED <<fs, cfg, roots, hash_table, dif_error_table, ram_cache,
                   block_progress_dict, directory, dif_table, state, cache_index, run, pc,
                   disk, cmd_queue, result_queue, handles, counters, hist>>

NextChain == ChainFirstLoop \/ ChainInterrupt \/ ChainLoopEnd

SpecChain == InitChain /\ [][NextChain]_vars

\* C35: when first_loop(chain=True) has returned, the second loop has been started if the
\* first loop finished without interrupt, on the parallel path, on the sequential path and
\* on the path without computation alike, and has not been started if run = false was set
\* during the first loop
C35_ChainStartsSecondLoop ==
    (ix.status = "returned" /\ ix.chain) => (ix.second_loop = ix.run)

----------------------------------------------------------------------------
(* End of the sequential second loop *)

\* C36: when no block remains, the sequential second loop recognises the loader's answer
\* and exits without error, and after the sequential loop no worker processes are
\* started
C36_SequentialSecondLoopEnds ==
    [][pc = "sl_seq" =>
          /\ (run /\ ~BlockExists(dif_table, cache_index)) => pc' # "crashed"
          /\ pc' \notin {"sl_par", "sl_prefill"}]_vars

----------------------------------------------------------------------------
(* The bounded command queue of the first loop *)

----------------------------------------------------------------------------
(* Life cycle of a file row *)

\* C38: the success value of a file row, followed by its path, only moves
\* UNPROCESSED -> PROCESSING -> {OK, ERROR}; OK and ERROR are never overwritten, neither by
\* a step of the pipeline nor by swap_dir_b nor by reset_preprocessing; no row is handed
\* out twice; and reset_preprocessing moves exactly the PROCESSING rows back to UNPROCESSED
\* (a killed process loses the values it had not committed: those steps are left out)
C38_FileRowLifecycle ==
    [][LET succ(d, p) == d[CHOOSE k \in DOMAIN d : d[k].path = p].success
           paths(d) == {d[k].path : k \in DOMAIN d}
           moves(s, t) == \/ s = t
                          \/ s = UNPROCESSED /\ t = PROCESSING
                          \/ s = PROCESSING /\ t \in {OK, ERROR}
                          \* one iteration of the sequential loop takes and stores a batch
                          \/ pc = "fl_seq" /\ s = UNPROCESSED /\ t \in {OK, ERROR}
           reset == ResetPreprocessing(directory')
           swap == SwapDirB(directory')
       IN (pc' # "killed" /\ directory' # directory) =>
             /\ \A p \in paths(directory) :
                   p \in paths(directory') /\ moves(succ(directory, p), succ(directory', p))
             /\ \A p \in paths(directory') :
                   /\ succ(swap, p) = succ(directory', p)
                   /\ succ(reset, p) = IF succ(directory', p) = PROCESSING THEN UNPROCESSED
                                       ELSE succ(directory', p)
             /\ ~hist'.twice]_vars

\* a processed row, a failed row and a row handed to a worker, side by side
C38_Witness ==
    /\ \E k \in DOMAIN directory : directory[k].success = OK
    /\ \E k \in DOMAIN directory : directory[k].success = ERROR
    /\ \E k \in DOMAIN directory : directory[k].success = PROCESSING

----------------------------------------------------------------------------
(* Frame of a block-mode result *)

\* C39: storing the result of a task (key_a, max_key_b) of block k with a diff vector no
\* longer than the block's size_y changes only pair rows with that key_a and block_key k:
\* the pair rows of other key_a or of other blocks and all file rows stay as they are.
\* Checked for the results a dequeue of the batched second loop stores and, on the same
\* table, for every task of every block and every diff vector up to max_size_b
C39_BlockResultFrame ==
    [][LET t == dif_table
           own(task, bk, k) == t[k].key_a = task.key_a /\ t[k].block_key = bk
           frame(task, bk, diff) ==
               LET w == InsertBatchDiffBlockResult(t, task.key_a, task.key_b, diff)
               IN /\ DOMAIN w = DOMAIN t
                  /\ \A k \in DOMAIN t : w[k] # t[k] => own(task, bk, k)
           vectors(n) == UNION {[1..m -> Deltas] : m \in 1..n}
           results == {result_queue[i] : i \in {j \in 1..Len(result_queue) :
                                                  result_queue[j].kind = "bres"}}
       IN (cfg.batch_args /\ pc \in {"sl_deq", "sl_drain"} /\ pc' # "killed") =>
             /\ directory' = directory
             /\ DOMAIN dif_table' = DOMAIN t
             /\ \A k \in DOMAIN t :
                   dif_table'[k] # t[k] =>
                      \E res \in results : own(res, CacheKeyOf(t, res), k)
             /\ \A bk \in {t[k].block_key : k \in DOMAIN t} :
                   \A task \in TaskBlockKey(t, bk) :
                      \A diff \in vectors(task.n) : frame(task, bk, diff)]_vars

\* a block of the batched second loop with the result of one key_a stored and the row of
\* another key_a of the same block still open
C39_Witness ==
    /\ Planned /\ cfg.batch_args
    /\ \E j, k \in DOMAIN dif_table :
          /\ dif_table[j].block_key = dif_table[k].block_key
          /\ dif_table[j].key_a # dif_table[k].key_a
          /\ dif_table[j].success = PairOk
          /\ dif_table[k].success = PairUnset

----------------------------------------------------------------------------
(* Sizing applied again *)

\* C40: cond_switch_a_b and set_keys_zero_index, which recovery from INDEXED_DIRS applies
\* again, leave a catalog that full_index has already sized as it is: the partition
\* labels, the configured roots and all keys are unchanged, for every |A| and |B|
C40_SizingIdempotent ==
    Sized =>
        /\ SetKeysZeroIndex(CondSwitchAB(directory, cfg.has_dir_b)) = directory
        /\ CondSwitchRoots(directory, cfg.has_dir_b, roots) = roots

\* a sized catalog in state INDEXED_DIRS whose partitions were exchanged by full_index
C40_Witness ==
    /\ Sized
    /\ state = "INDEXED_DIRS"
    /\ disk.state = "INDEXED_DIRS"
    /\ disk.directory = directory
    /\ roots = <<"b", "a">>
    /\ KeysOf(directory, 0) # {}
    /\ Cardinality(KeysOf(directory, 0)) < Cardinality(KeysOf(directory, 1))

====
